---------------------------- MODULE Spec2Model ----------------------------
(***************************************************************************)
(* A model of step-db's cache layer: the W-TinyLFU cache facade            *)
(* (cache/cache.rs over memory/lru.rs, cache/bloom.rs, cache/counter.rs),  *)
(* the arena-backed skiplist (cache/skiplist.rs, cache/area.rs) and the    *)
(* value codec (cache/entry.rs).                                           *)
(*                                                                         *)
(* Several specifications share the module; each leaves the other          *)
(* components' variables untouched:                                        *)
(*   Spec       - the cache facade: Cache::set, Cache::get, Cache::del     *)
(*   SkipSpec   - concurrent SkipList::add, one step per atomic access     *)
(*   CodecSpec  - Value::encode_value / Value::decode_value on chosen input*)
(*   ArenaSpec  - Area::put_node / put_key / put_value on one Area         *)
(*   SketchSpec - CMSketch::increment / estimate / reset on one sketch     *)
(*   FilterSpec - BloomFilter::allow / may_exist / reset on one filter     *)
(*   WindowSpec - WindowLRU::add / get on one window, for memory/lru.rs    *)
(*                and for cache/lru.rs                                     *)
(*   SlruSpec   - SegmentedLRU::add / get on one segmented list            *)
(*   KeysSpec   - compare_keys on chosen pairs of keys                     *)
(*   TickSpec   - the facade with runs of missing gets up to a tick value  *)
(*   ScenarioSpec - the facade under the hot-key admission scenario        *)
(*   RawSpec    - Value::decode_value on bytes no encoder wrote            *)
(*   FairSkipSpec - SkipSpec with fewer adds, under fair scheduling        *)
(* SkipListIter (cache/iterator.rs) is read-only and is evaluated on the   *)
(* states of SkipSpec.                                                     *)
(***************************************************************************)
EXTENDS Integers, Sequences, FiniteSets, TLC

(***************************************************************************)
(* Bounds of the model (not program constants).                            *)
(***************************************************************************)
\* Cache::set calls explored in one run of the facade.
MaxSets == 4
\* Cache::get calls explored in one run of the facade.
MaxGets == 1
\* Sets of the hot key in one run of the admission scenario.
MaxHotSets == 2
\* SkipList::add calls in one run under fair scheduling.
MaxFairAdds == 2
\* Length of the buffer a Value is encoded into by the codec runs.
BufLen == 16
\* SkipList::add calls started in one run of the skiplist.
MaxAdds == 3
\* Most coin flips random_height wins in a row: node heights are 1..MaxCoinFlips+1.
MaxCoinFlips == 2

(***************************************************************************)
(* Machine arithmetic.  TLC's integers are 32-bit signed, so a u32 whose    *)
(* high bits matter is held as two 16-bit halves and a u64 as four 16-bit  *)
(* limbs; small naturals are used wherever the values stay small.          *)
(***************************************************************************)
Max(a, b) == IF a >= b THEN a ELSE b

Min(a, b) == IF a <= b THEN a ELSE b

Pow2(n) == 2 ^ n

\* bitwise operators on naturals
RECURSIVE BitOr(_, _)
BitOr(a, b) ==
    IF a = 0 THEN b
    ELSE IF b = 0 THEN a
    ELSE Max(a % 2, b % 2) + 2 * BitOr(a \div 2, b \div 2)

RECURSIVE BitAnd(_, _)
BitAnd(a, b) ==
    IF a = 0 \/ b = 0 THEN 0
    ELSE (a % 2) * (b % 2) + 2 * BitAnd(a \div 2, b \div 2)

RECURSIVE BitXor(_, _)
BitXor(a, b) ==
    IF a = 0 THEN b
    ELSE IF b = 0 THEN a
    ELSE ((a + b) % 2) + 2 * BitXor(a \div 2, b \div 2)

\* A u32 is held as two 16-bit halves <<hi, lo>>, so that sums and rotations
\* wrap at 2^32 exactly.
HALF == 2^16

\* `x as u32` for a hash x the model uses (x < 2^31)
AsU32(x) == <<(x \div HALF) % HALF, x % HALF>>

\* u32::wrapping_add
WrappingAdd32(a, b) ==
    LET lo == a[2] + b[2]
    IN  <<(a[1] + b[1] + lo \div HALF) % HALF, lo % HALF>>

\* (h >> 17) | (h << 15): a rotation left by 15, i.e. the halves swapped and
\* the word then rotated right by one bit
Rotl15(h) ==
    LET hi == h[2]
        lo == h[1]
    IN  <<(hi \div 2) + (lo % 2) * (HALF \div 2), (lo \div 2) + (hi % 2) * (HALF \div 2)>>

\* h % m for a u32 h and 0 < m < 2^15
Mod32(h, m) == ((h[1] % m) * (HALF % m) + h[2]) % m

(***************************************************************************)
(* Finite maps (HashMap<u64, Item>) as functions on their key set.         *)
(***************************************************************************)
EmptyMap == [x \in {} |-> 0]

MapInsert(m, k, v) == [x \in (DOMAIN m) \cup {k} |-> IF x = k THEN v ELSE m[x]]

MapRemove(m, k) == [x \in (DOMAIN m) \ {k} |-> m[x]]

\* LinkedList helpers
Last(s) == s[Len(s)]

Front(s) == SubSeq(s, 1, Len(s) - 1)

PushFront(s, e) == <<e>> \o s

ListSet(s) == {s[i] : i \in 1..Len(s)}

\* number of positions of list s holding e
Occurrences(s, e) == Cardinality({i \in 1..Len(s) : s[i] = e})


(***************************************************************************)
(* cache/bloom.rs: the watchdog.                                           *)
(***************************************************************************)
\* ceil(bloom_bits(n, 0.01) / n) = ceil(-ln(0.01) / ln(2)^2) = ceil(9.585...)
BLOOM_BITS_PER_KEY == 10
\* (bits_per_key as f64 * LN_2) as u8 = floor(6.93...), then clamped to [1, 30]
BLOOM_K == 6

Zeros(n) == [i \in 1..n |-> 0]

\* bloom::new(num_entries, 0.01) -> init_filter: the bitmap has one byte more
\* than the bits need, and that last byte holds k
init_filter(num_entries) ==
    LET k     == BLOOM_K
        bits  == Max(64, BLOOM_BITS_PER_KEY * num_entries)
        bytes == (bits + 7) \div 8
    IN  [bitmap |-> [i \in 1..(bytes + 1) |-> IF i = bytes + 1 THEN k ELSE 0],
         k      |-> Max(1, Min(k, 30))]

\* the bit positions the k probes of hash h touch: h % bits, then h += delta
RECURSIVE ProbeFrom(_, _, _, _)
ProbeFrom(h, delta, bits, n) ==
    IF n = 0 THEN <<>>
    ELSE <<Mod32(h, bits)>> \o ProbeFrom(WrappingAdd32(h, delta), delta, bits, n - 1)

\* h is the key hash; `as u32` keeps its low 32 bits
BloomProbes(bf, h) ==
    ProbeFrom(AsU32(h), Rotl15(AsU32(h)), 8 * (Len(bf.bitmap) - 1), bf.k)

BitIsSet(byte, b) == (byte \div Pow2(b)) % 2 = 1

SetBit(byte, b) == IF BitIsSet(byte, b) THEN byte ELSE byte + Pow2(b)

RECURSIVE SetProbes(_, _)
SetProbes(bitmap, ps) ==
    IF ps = <<>> THEN bitmap
    ELSE LET p == Head(ps)
             i == (p \div 8) + 1
         IN  SetProbes([bitmap EXCEPT ![i] = SetBit(@, p % 8)], Tail(ps))

\* BloomFilter::insert setting the bit of the first probe only
BloomFilter_insert_FirstProbe(bf, h) ==
    [bf |-> [bf EXCEPT !.bitmap = SetProbes(bf.bitmap, SubSeq(BloomProbes(bf, h), 1, 1))],
     ret |-> TRUE]

\* BloomFilter::insert: sets the probed bits; returns true in every case
BloomFilter_insert(bf, h) ==
    IF bf.k > 30
    THEN [bf |-> bf, ret |-> TRUE]
    ELSE [bf |-> [bf EXCEPT !.bitmap = SetProbes(bf.bitmap, BloomProbes(bf, h))],
          ret |-> TRUE]

\* BloomFilter::may_exist
may_exist(bf, h) ==
    IF Len(bf.bitmap) < 2 THEN FALSE
    ELSE LET ps == BloomProbes(bf, h)
         IN  \A j \in 1..Len(ps) :
                 BitIsSet(bf.bitmap[(ps[j] \div 8) + 1], ps[j] % 8)

\* BloomFilter::allow: `already` when the hash was seen, else insert's result
BloomFilter_allow(bf, h) ==
    LET already == may_exist(bf, h)
    IN  IF ~already THEN BloomFilter_insert(bf, h)
        ELSE [bf |-> bf, ret |-> already]

\* BloomFilter::reset: every byte, the one holding k included
BloomFilter_reset(bf) == [bf EXCEPT !.bitmap = Zeros(Len(bf.bitmap))]

(***************************************************************************)
(* cache/counter.rs: the Count-Min sketch.                                 *)
(***************************************************************************)
CM_DEPTH == 4

\* next_power_of_two: the shifts are 1, 2, 8, 16, 32 (no shift by 4)
next_power_of_two(x) ==
    LET x0 == x - 1
        x1 == BitOr(x0, x0 \div 2)
        x2 == BitOr(x1, x1 \div 4)
        x3 == BitOr(x2, x2 \div 256)
        x4 == BitOr(x3, x3 \div 65536)
        \* x >> 32 is 0 for every x the model uses (x < 2^31)
        x5 == BitOr(x4, 0)
    IN  x5 + 1

\* new_row(num_counters): num_counters / 2 bytes
new_row(num_counters) == [data |-> Zeros(num_counters \div 2)]

\* counter::new(num_counters) with the seeds rng.next_u64() drew
counter_new(num_counters, seed) ==
    LET w == next_power_of_two(num_counters)
    IN  [rows |-> [i \in 1..CM_DEPTH |-> new_row(w)],
         seed |-> seed,
         mask |-> w - 1]

\* CmRow::get: the nibble n of the row; indexing past the row panics
CmRow_get(row, n) ==
    LET i == n \div 2
    IN  IF i >= Len(row.data)
        THEN [val |-> 0, panic |-> TRUE]
        ELSE [val |-> (row.data[i + 1] \div Pow2((n % 2) * 4)) % 16, panic |-> FALSE]

\* CmRow::increment: saturates at 15
CmRow_increment(row, n) ==
    LET i == n \div 2
        s == (n % 2) * 4
    IN  IF i >= Len(row.data)
        THEN [row |-> row, panic |-> TRUE]
        ELSE LET v == (row.data[i + 1] \div Pow2(s)) % 16
             IN  [row |-> IF v < 15
                          THEN [row EXCEPT !.data[i + 1] = @ + Pow2(s)]
                          ELSE row,
                  panic |-> FALSE]

\* CmRow::reset: every byte b becomes (b >> 1) & 0x77
CmRow_reset(row) ==
    [row EXCEPT !.data = [i \in 1..Len(row.data) |-> BitAnd(row.data[i] \div 2, 119)]]

CmIndex(c, hashed, i) == BitAnd(BitXor(hashed, c.seed[i]), c.mask)

\* CMSketch::increment: row by row; a panic in row i leaves rows < i incremented
RECURSIVE IncrementRows(_, _, _)
IncrementRows(c, hashed, i) ==
    IF i > CM_DEPTH THEN [c |-> c, panic |-> FALSE]
    ELSE LET r == CmRow_increment(c.rows[i], CmIndex(c, hashed, i))
         IN  IF r.panic THEN [c |-> c, panic |-> TRUE]
             ELSE IncrementRows([c EXCEPT !.rows[i] = r.row], hashed, i + 1)

CMSketch_increment(c, hashed) == IncrementRows(c, hashed, 1)

\* CMSketch::estimate: the minimum of the four nibbles, starting from 255
RECURSIVE EstimateRows(_, _, _, _)
EstimateRows(c, hashed, i, m) ==
    IF i > CM_DEPTH THEN [val |-> m, panic |-> FALSE]
    ELSE LET r == CmRow_get(c.rows[i], CmIndex(c, hashed, i))
         IN  IF r.panic THEN [val |-> 0, panic |-> TRUE]
             ELSE EstimateRows(c, hashed, i + 1, Min(m, r.val))

CMSketch_estimate(c, hashed) == EstimateRows(c, hashed, 1, 255)

\* CMSketch::reset: `let _ = self.rows.iter_mut().map(|x| x.reset());` builds a
\* lazy iterator and drops it unconsumed, so no row is touched
CMSketch_reset(c) == c


(***************************************************************************)
(* memory/lru.rs: WindowLRU and SegmentedLRU over the shared map.          *)
(*                                                                         *)
(* An Item is an Rc<RefCell<StoreItem>>: the model keeps every StoreItem   *)
(* ever allocated in `items` and names an Rc by its index there, so that   *)
(* two items with equal fields remain two items.  The operators work on a  *)
(* record L = [data, items, list, stage_one, stage_two] and return the new *)
(* record with `panic` set when the Rust code unwinds at that point (what  *)
(* was written before the unwinding stays written).                        *)
(***************************************************************************)
STAGE_ONE == 1
STAGE_TWO == 2

\* position of the first list element whose key is `key`, 0 if none
PositionOfKey(items, lst, key) ==
    LET hits == {i \in 1..Len(lst) : items[lst[i]].key = key}
    IN  IF hits = {} THEN 0 ELSE CHOOSE i \in hits : \A j \in hits : i <= j

RemoveAt(lst, pos) == SubSeq(lst, 1, pos - 1) \o SubSeq(lst, pos + 1, Len(lst))

\* WindowLRU::add without the map removal of the evicted item
WindowLRU_add_KeepsEvictedInMap(L, cap, new_item) ==
    LET id     == Len(L.items) + 1
        items1 == Append(L.items, new_item)
    IN  IF Len(L.list) < cap
        THEN [L |-> [L EXCEPT !.items = items1,
                              !.list  = PushFront(L.list, id),
                              !.data  = MapInsert(L.data, new_item.key, id)],
              evict |-> 0, panic |-> FALSE]
        ELSE IF L.list = <<>>
        THEN [L |-> [L EXCEPT !.items = items1], evict |-> 0, panic |-> TRUE]
        ELSE LET evict_item == Last(L.list)
             IN  [L |-> [L EXCEPT !.items = items1,
                                  !.list  = PushFront(Front(L.list), id),
                                  !.data  = MapInsert(L.data, new_item.key, id)],
                  evict |-> evict_item, panic |-> FALSE]

\* WindowLRU::add: returns the evicted item (0 for None)
WindowLRU_add(L, cap, new_item) ==
    LET id     == Len(L.items) + 1
        items1 == Append(L.items, new_item)
    IN  IF Len(L.list) < cap
        THEN [L |-> [L EXCEPT !.items = items1,
                              !.list  = PushFront(L.list, id),
                              !.data  = MapInsert(L.data, new_item.key, id)],
              evict |-> 0, panic |-> FALSE]
        ELSE IF L.list = <<>>
        \* pop_back().unwrap() on an empty list (cap = 0)
        THEN [L |-> [L EXCEPT !.items = items1], evict |-> 0, panic |-> TRUE]
        ELSE LET evict_item == Last(L.list)
                 data1      == MapRemove(L.data, items1[evict_item].key)
             IN  [L |-> [L EXCEPT !.items = items1,
                                  !.list  = PushFront(Front(L.list), id),
                                  !.data  = MapInsert(data1, new_item.key, id)],
                  evict |-> evict_item, panic |-> FALSE]

\* WindowLRU::remove_item_in_list + WindowLRU::get: the first element with the
\* key moves to the front
WindowLRU_get(L, key) ==
    LET pos == PositionOfKey(L.items, L.list, key)
    IN  IF pos = 0 THEN L
        ELSE [L EXCEPT !.list = PushFront(RemoveAt(L.list, pos), L.list[pos])]

\* cache/lru.rs, WindowLRU::get(v): the argument is not used; the tail of the
\* list, whatever it is, moves to the front
cache_WindowLRU_get(L) ==
    IF L.list = <<>> THEN L
    ELSE [L EXCEPT !.list = PushFront(Front(L.list), Last(L.list))]

\* SegmentedLRU::len
SegmentedLRU_len(L) == Len(L.stage_one) + Len(L.stage_two)

\* SegmentedLRU::victim: 0 for None
SegmentedLRU_victim(L, stage_one_cap, stage_two_cap) ==
    IF SegmentedLRU_len(L) < stage_one_cap + stage_two_cap THEN 0
    ELSE IF L.stage_one = <<>> THEN 0
    ELSE Last(L.stage_one)

\* SegmentedLRU::add
SegmentedLRU_add(L, stage_one_cap, stage_two_cap, item) ==
    LET items1 == [L.items EXCEPT ![item].stage = 1]
        key    == items1[item].key
    IN  IF Len(L.stage_one) < stage_one_cap
           \/ SegmentedLRU_len(L) < stage_one_cap + stage_two_cap
        THEN [L |-> [L EXCEPT !.items     = items1,
                              !.stage_one = PushFront(L.stage_one, item),
                              !.data      = MapInsert(L.data, key, item)],
              panic |-> FALSE]
        ELSE IF L.stage_one = <<>>
        THEN [L |-> [L EXCEPT !.items = items1], panic |-> TRUE]
        ELSE LET evicted == Last(L.stage_one)
                 data1   == MapRemove(L.data, items1[evicted].key)
             IN  [L |-> [L EXCEPT !.items     = items1,
                                  !.stage_one = PushFront(Front(L.stage_one), item),
                                  !.data      = MapInsert(data1, key, item)],
                  panic |-> FALSE]

\* SegmentedLRU::remove_item_in_stage_one
remove_item_in_stage_one(L, key) ==
    LET pos == PositionOfKey(L.items, L.stage_one, key)
    IN  IF pos = 0 THEN L ELSE [L EXCEPT !.stage_one = RemoveAt(L.stage_one, pos)]

\* SegmentedLRU::get(new_item).  `held` says that the caller still holds a
\* shared borrow (Ref) of new_item's cell and of the map, as Cache::get does:
\* new_item.borrow_mut() then fails with BorrowMutError.
SegmentedLRU_get(L, stage_one_cap, stage_two_cap, new_item, held) ==
    LET key == L.items[new_item].key
        \* if STAGE_TWO == stage: the tail of stage_two goes to the front
        L1  == IF L.items[new_item].stage = STAGE_TWO /\ L.stage_two # <<>>
               THEN [L EXCEPT !.stage_two = PushFront(Front(L.stage_two), Last(L.stage_two))]
               ELSE L
    IN  IF Len(L1.stage_two) < stage_two_cap
        THEN LET L2 == remove_item_in_stage_one(L1, key)
             IN  IF held THEN [L |-> L2, panic |-> TRUE]
                 ELSE [L |-> [L2 EXCEPT !.items[new_item].stage = STAGE_TWO,
                                        !.stage_two = PushFront(L2.stage_two, new_item)],
                       panic |-> FALSE]
        ELSE IF L1.stage_two = <<>>
        \* stage_two.pop_back().unwrap() on an empty list (stage_two_cap = 0)
        THEN [L |-> L1, panic |-> TRUE]
        ELSE LET old == Last(L1.stage_two)
                 L2  == [L1 EXCEPT !.stage_two = Front(L1.stage_two)]
             IN  IF held THEN [L |-> L2, panic |-> TRUE]
                 ELSE
                 LET L3 == [L2 EXCEPT !.items[new_item].stage = STAGE_TWO,
                                      !.stage_two = PushFront(L2.stage_two, new_item),
                                      !.data = MapInsert(L2.data, key, new_item)]
                     L4 == [L3 EXCEPT !.items[old].stage = STAGE_ONE]
                 IN  IF Len(L4.stage_one) >= stage_one_cap /\ L4.stage_one = <<>>
                     THEN [L |-> L4, panic |-> TRUE]
                     ELSE
                     LET L5 == IF Len(L4.stage_one) >= stage_one_cap
                               THEN [L4 EXCEPT
                                       !.stage_one = Front(L4.stage_one),
                                       !.data = MapRemove(L4.data,
                                                  L4.items[Last(L4.stage_one)].key)]
                               ELSE L4
                     IN  [L |-> [L5 EXCEPT
                                   !.stage_one = PushFront(L5.stage_one, old),
                                   !.data = MapInsert(L5.data, L5.items[old].key, old)],
                          panic |-> FALSE]


(***************************************************************************)
(* cache/cache.rs: the facade.                                             *)
(*                                                                         *)
(* A key is modelled by the pair key_to_hash gives it: h (DefaultHasher)   *)
(* and c (xxh3).                                                           *)
(***************************************************************************)
CacheKeys ==
    { [h |-> 1, c |-> 101], [h |-> 2, c |-> 102], [h |-> 3, c |-> 103] }

\* the keys get and del are called with: those above and one more key that
\* is never set and collides on h with the first
ProbeKeys == CacheKeys \cup { [h |-> 1, c |-> 201] }

\* the `size` arguments of Cache::new the model explores
CacheSizes == {1, 2, 3}

\* the seeds rng.next_u64() may have drawn for the four sketch rows
SeedChoices == { <<0, 0, 0, 0>>, <<1, 2, 3, 0>> }

\* Cache::new: lru_sz = max(1, 1% of size)
lru_sz(sz) == Max(1, sz \div 100)

\* Cache::new: slru_sz = max(1, 99% of size)
slru_sz(sz) == Max(1, (sz * 99) \div 100)

\* Cache::new: slru_one = max(1, 20% of slru_sz)
slru_one(sz) == Max(1, slru_sz(sz) \div 5)

\* Cache::new: slru_two = slru_sz - slru_one
slru_two(sz) == slru_sz(sz) - slru_one(sz)

\* Cache::new: threshold is initialised to 0 and never assigned again
THRESHOLD == 0

NoTrace ==
    [lv |-> 0, sv |-> 0, allowCalled |-> FALSE, already |-> FALSE,
     allowRet |-> FALSE, compared |-> FALSE, lvCount |-> 0, svCount |-> 0]

\* Cache::set on the cache record C = [sz, L, watch_dog, c, t]; `trace` records
\* what the admission path saw (it is not program state)
Cache_set(C, key, value) ==
    LET item == [stage |-> 0, key |-> key.h, conflict |-> key.c, value |-> value]
        w    == WindowLRU_add(C.L, lru_sz(C.sz), item)
        lv   == w.evict
    IN  IF w.panic
        THEN [C |-> [C EXCEPT !.L = w.L], ret |-> FALSE, panic |-> TRUE, trace |-> NoTrace]
        ELSE IF lv = 0
        THEN [C |-> [C EXCEPT !.L = w.L], ret |-> TRUE, panic |-> FALSE, trace |-> NoTrace]
        ELSE
        LET sv == SegmentedLRU_victim(w.L, slru_one(C.sz), slru_two(C.sz))
        IN  IF sv = 0
            THEN LET a == SegmentedLRU_add(w.L, slru_one(C.sz), slru_two(C.sz), lv)
                 IN  [C |-> [C EXCEPT !.L = a.L], ret |-> TRUE, panic |-> a.panic,
                      trace |-> [NoTrace EXCEPT !.lv = lv]]
            ELSE
            LET lvKey   == w.L.items[lv].key
                svKey   == w.L.items[sv].key
                already == may_exist(C.watch_dog, lvKey)
                al      == BloomFilter_allow(C.watch_dog, lvKey)
                C1      == [C EXCEPT !.L = w.L, !.watch_dog = al.bf]
                tr1     == [NoTrace EXCEPT !.lv = lv, !.sv = sv, !.allowCalled = TRUE,
                                           !.already = already, !.allowRet = al.ret]
            IN  IF ~al.ret
                THEN [C |-> C1, ret |-> TRUE, panic |-> FALSE, trace |-> tr1]
                ELSE
                LET lru_count  == CMSketch_estimate(C1.c, lvKey)
                    slru_count == CMSketch_estimate(C1.c, svKey)
                    tr2 == [tr1 EXCEPT !.compared = TRUE,
                                       !.lvCount = lru_count.val,
                                       !.svCount = slru_count.val]
                IN  IF lru_count.panic \/ slru_count.panic
                    THEN [C |-> C1, ret |-> FALSE, panic |-> TRUE, trace |-> tr1]
                    ELSE IF lru_count.val < slru_count.val
                    THEN [C |-> C1, ret |-> TRUE, panic |-> FALSE, trace |-> tr2]
                    \* falls out of the `if let` to the final `false`:
                    \* slru.add(lru_victim) is not called on this path
                    ELSE [C |-> C1, ret |-> FALSE, panic |-> FALSE, trace |-> tr2]

\* Cache::t is an i32
I32_MAX == 2147483647

\* the tick at the head of Cache::get; `self.t += 1` as a build without
\* overflow checks computes it (with them the call panics at i32::MAX: Get)
CacheTick(C) ==
    LET t1 == IF C.t = I32_MAX THEN -I32_MAX - 1 ELSE C.t + 1
    IN  IF t1 = THRESHOLD
        THEN [C EXCEPT !.c = CMSketch_reset(C.c),
                       !.watch_dog = BloomFilter_reset(C.watch_dog),
                       !.t = 0]
        ELSE [C EXCEPT !.t = t1]

\* Cache::get without the comparison of the conflict hashes
Cache_get_NoConflictCheck(C, key) ==
    LET C0 == CacheTick(C)
    IN  IF key.h \notin DOMAIN C0.L.data
        THEN [C |-> C0, ret |-> 0, panic |-> FALSE, trace |-> NoTrace]
        ELSE
        LET ref == C0.L.items[C0.L.data[key.h]]
            al  == BloomFilter_allow(C0.watch_dog, key.h)
            inc == CMSketch_increment(C0.c, key.h)
        IN  [C |-> [C0 EXCEPT !.watch_dog = al.bf, !.c = inc.c],
             ret |-> ref.value, panic |-> inc.panic,
             trace |-> [NoTrace EXCEPT !.allowCalled = TRUE]]

\* Cache::get as it would run had it dropped its Refs of the map and of the
\* item before the call of slru.get
Cache_get_NoRefHeld(C, key) ==
    LET C0 == CacheTick(C)
    IN  IF key.h \notin DOMAIN C0.L.data
        THEN [C |-> C0, ret |-> 0, panic |-> FALSE, trace |-> NoTrace]
        ELSE
        LET item == C0.L.data[key.h]
            ref  == C0.L.items[item]
        IN  IF ref.conflict # key.c
            THEN [C |-> C0, ret |-> 0, panic |-> FALSE, trace |-> NoTrace]
            ELSE
            LET already == may_exist(C0.watch_dog, key.h)
                al  == BloomFilter_allow(C0.watch_dog, key.h)
                inc == CMSketch_increment(C0.c, key.h)
                C1  == [C0 EXCEPT !.watch_dog = al.bf, !.c = inc.c]
                tr  == [NoTrace EXCEPT !.allowCalled = TRUE, !.already = already,
                                       !.allowRet = al.ret]
            IN  IF inc.panic
                THEN [C |-> C1, ret |-> 0, panic |-> TRUE, trace |-> tr]
                ELSE IF ref.stage = 0
                THEN [C |-> [C1 EXCEPT !.L = WindowLRU_get(C1.L, ref.key)],
                      ret |-> ref.value, panic |-> FALSE, trace |-> tr]
                ELSE LET g == SegmentedLRU_get(C1.L, slru_one(C.sz), slru_two(C.sz),
                                               item, FALSE)
                     IN  [C |-> [C1 EXCEPT !.L = g.L],
                          ret |-> IF g.panic THEN 0 ELSE ref.value,
                          panic |-> g.panic, trace |-> tr]

\* Cache::get; ret is the value returned, 0 for None.  The Ref of the map
\* (self.data.borrow()) and the Ref of the item (item.borrow()) live until the
\* end of the `if let` body, so slru.get runs with both held.
Cache_get(C, key) ==
    LET C0 == CacheTick(C)
    IN  IF key.h \notin DOMAIN C0.L.data
        THEN [C |-> C0, ret |-> 0, panic |-> FALSE, trace |-> NoTrace]
        ELSE
        LET item == C0.L.data[key.h]
            ref  == C0.L.items[item]
        IN  IF ref.conflict # key.c
            THEN [C |-> C0, ret |-> 0, panic |-> FALSE, trace |-> NoTrace]
            ELSE
            LET already == may_exist(C0.watch_dog, key.h)
                al  == BloomFilter_allow(C0.watch_dog, key.h)
                inc == CMSketch_increment(C0.c, key.h)
                C1  == [C0 EXCEPT !.watch_dog = al.bf, !.c = inc.c]
                tr  == [NoTrace EXCEPT !.allowCalled = TRUE, !.already = already,
                                       !.allowRet = al.ret]
            IN  IF inc.panic
                THEN [C |-> C1, ret |-> 0, panic |-> TRUE, trace |-> tr]
                ELSE IF ref.stage = 0
                THEN [C |-> [C1 EXCEPT !.L = WindowLRU_get(C1.L, ref.key)],
                      ret |-> ref.value, panic |-> FALSE, trace |-> tr]
                ELSE LET g == SegmentedLRU_get(C1.L, slru_one(C.sz), slru_two(C.sz),
                                               item, TRUE)
                     IN  [C |-> [C1 EXCEPT !.L = g.L],
                          ret |-> IF g.panic THEN 0 ELSE ref.value,
                          panic |-> g.panic, trace |-> tr]

\* Cache::del; ret is the conflict hash returned, 0 for None.  The Ref of the map
\* taken by self.data.borrow() in the `if let` is still alive when
\* self.data.borrow_mut() is requested, which fails with BorrowMutError.
Cache_del(C, key) ==
    IF key.h \notin DOMAIN C.L.data
    THEN [C |-> C, ret |-> 0, panic |-> FALSE]
    ELSE LET item == C.L.items[C.L.data[key.h]]
             mapRefHeld == TRUE
         IN  IF key.c # item.conflict
             THEN [C |-> C, ret |-> 0, panic |-> FALSE]
             ELSE IF mapRefHeld
             THEN [C |-> C, ret |-> 0, panic |-> TRUE]
             ELSE [C |-> [C EXCEPT !.L.data = MapRemove(C.L.data, key.h)],
                   ret |-> item.conflict, panic |-> FALSE]


(***************************************************************************)
(* State.                                                                  *)
(***************************************************************************)
VARIABLES
    \* --- the cache facade (struct Cache and what it owns) ---
    sz,          \* the size Cache::new was called with (fixes the capacities)
    data,        \* Map: key hash -> item, shared by both LRUs
    items,       \* every StoreItem allocated so far; an item is its index
    list,        \* WindowLRU::list, front first
    stage_one,   \* SegmentedLRU::stage_one, front first
    stage_two,   \* SegmentedLRU::stage_two, front first
    watch_dog,   \* BloomFilter
    c,           \* CMSketch
    t,           \* tick counter
    poisoned,    \* the RwLock `m` is poisoned: an operation unwound holding it
    \* --- observations of the run (not program state) ---
    last,        \* the last facade call: what it was given and what it returned
    ops,         \* how many get calls were made
    \* --- the skiplist (struct SkipList, its Area) and its writers ---
    sl_height,   \* SkipList::height
    head_offset, \* SkipList::head_offset
    area_n,      \* Area::n, the high-water mark
    area_buf,    \* Area::buf: the key and value bytes written, by offset
    nodes,       \* the Node structs placed in the arena, by offset
    writers,     \* each writer's position in SkipList::add and its locals
    latest,      \* per key, the Value of the add that took effect last
    tickets,     \* how many add calls were started
    \* --- the value codec under test ---
    codec,       \* the Value, the buffer it is encoded into, the decoded Value
    \* --- components exercised on their own ---
    arena,       \* an Area, the build profile and the allocations made in it
    sketch,      \* a CMSketch and the increments it was given
    filter,      \* a BloomFilter and the hashes allow was called with
    window,      \* a WindowLRU with its map, and its last call
    slru,        \* a SegmentedLRU with its map, and its last call
    keys         \* two keys and what compare_keys made of them

cacheVars == <<sz, data, items, list, stage_one, stage_two, watch_dog, c, t,
               poisoned, last, ops>>

skipVars == <<sl_height, head_offset, area_n, area_buf, nodes, writers, latest,
              tickets>>

codecVars == <<codec>>

unitVars == <<arena, sketch, filter, window, slru, keys>>

\* the skiplist while a specification does not exercise it: not constructed
SkipParked ==
    /\ sl_height = 0
    /\ head_offset = 0
    /\ area_n = 0
    /\ area_buf = <<>>
    /\ nodes = <<>>
    /\ writers = <<>>
    /\ latest = <<>>
    /\ tickets = 0

\* the codec while a specification does not exercise it
CodecParked == codec = [pc |-> "off"]

\* a component a specification does not exercise
Parked(component) == component = [pc |-> "off"]

UnitsParked ==
    /\ Parked(arena) /\ Parked(sketch) /\ Parked(filter) /\ Parked(window)
    /\ Parked(slru) /\ Parked(keys)

\* the facade's state as the record the operators work on
CacheRec ==
    [sz |-> sz,
     L  |-> [data |-> data, items |-> items, list |-> list,
             stage_one |-> stage_one, stage_two |-> stage_two],
     watch_dog |-> watch_dog, c |-> c, t |-> t]

CacheStore(C) ==
    /\ data' = C.L.data
    /\ items' = C.L.items
    /\ list' = C.L.list
    /\ stage_one' = C.L.stage_one
    /\ stage_two' = C.L.stage_two
    /\ watch_dog' = C.watch_dog
    /\ c' = C.c
    /\ t' = C.t
    /\ sz' = sz

NoCall ==
    [op |-> "none", key |-> [h |-> 0, c |-> 0], retBool |-> FALSE, retVal |-> 0,
     panic |-> FALSE, trace |-> NoTrace]

\* Cache::new(size)
CacheInit ==
    /\ sz \in CacheSizes
    /\ data = EmptyMap
    /\ items = <<>>
    /\ list = <<>>
    /\ stage_one = <<>>
    /\ stage_two = <<>>
    /\ watch_dog = init_filter(sz)
    /\ \E seed \in SeedChoices : c = counter_new(sz, seed)
    /\ t = 0
    /\ poisoned = FALSE
    /\ last = NoCall
    /\ ops = [gets |-> 0]

\* a call of Cache::set(key, value).  V is opaque to the cache, so each call
\* passes a value never passed before: the serial number of the call.
Set(key) ==
    /\ ~poisoned
    /\ Len(items) < MaxSets
    /\ LET r == Cache_set(CacheRec, key, Len(items) + 1)
       IN  /\ CacheStore(r.C)
           /\ poisoned' = r.panic
           /\ last' = [op |-> "set", key |-> key, retBool |-> r.ret, retVal |-> 0,
                       panic |-> r.panic, trace |-> r.trace]
    /\ ops' = ops
    /\ UNCHANGED <<skipVars, codecVars, unitVars>>

\* a call of Cache::get(key)
Get(key) ==
    /\ ~poisoned
    /\ ops.gets < MaxGets
    /\ \E overflow_checks \in IF t = I32_MAX THEN BOOLEAN ELSE {FALSE} :
       LET r == IF overflow_checks
                THEN [C |-> CacheRec, ret |-> 0, panic |-> TRUE, trace |-> NoTrace]
                ELSE Cache_get(CacheRec, key)
       IN  /\ CacheStore(r.C)
           /\ poisoned' = r.panic
           /\ last' = [op |-> "get", key |-> key, retBool |-> FALSE, retVal |-> r.ret,
                       panic |-> r.panic, trace |-> r.trace]
    /\ ops' = [ops EXCEPT !.gets = @ + 1]
    /\ UNCHANGED <<skipVars, codecVars, unitVars>>

\* a call of Cache::del(key)
Del(key) ==
    /\ ~poisoned
    /\ LET r == Cache_del(CacheRec, key)
       IN  /\ CacheStore(r.C)
           /\ poisoned' = r.panic
           /\ last' = [op |-> "del", key |-> key, retBool |-> FALSE, retVal |-> r.ret,
                       panic |-> r.panic, trace |-> NoTrace]
    /\ ops' = ops
    /\ UNCHANGED <<skipVars, codecVars, unitVars>>

vars == <<cacheVars, skipVars, codecVars, unitVars>>

Init == CacheInit /\ SkipParked /\ CodecParked /\ UnitsParked

Next ==
    \/ \E key \in CacheKeys : Set(key)
    \/ \E key \in ProbeKeys : Get(key)
    \/ \E key \in ProbeKeys : Del(key)

Spec == Init /\ [][Next]_vars

(***************************************************************************)
(* The facade over long runs.  The tick is an i32 that each get advances,  *)
(* so the values near the ends of its range are reached only by runs of    *)
(* some 2^31 gets; such a run is taken in one step when every get in it is *)
(* a get of a key that is not in the map, which changes nothing but t.     *)
(***************************************************************************)
\* a key that is never set
AbsentKey == [h |-> 0, c |-> 0]

\* the values of t a run of misses may stop at: the last value before the
\* increment overflows, and the last value before t reaches the threshold
TickTargets == {I32_MAX, THRESHOLD - 1}

\* the ticks from t (exclusive) to target (inclusive) pass i32::MAX
PassesOverflow(target) == target < t

\* one of those ticks equals the threshold, which would age the cache
PassesThreshold(target) ==
    IF PassesOverflow(target)
    THEN THRESHOLD > t \/ THRESHOLD <= target
    ELSE t < THRESHOLD /\ THRESHOLD <= target

\* consecutive calls of Cache::get(AbsentKey) that bring t to target without
\* ageing; where the run passes i32::MAX a build with overflow checks panics
\* there, holding the lock, and a build without them wraps and goes on
MissRun(target) ==
    /\ ~poisoned
    /\ t # target
    /\ ~PassesThreshold(target)
    /\ \E overflow_checks \in IF PassesOverflow(target) THEN BOOLEAN ELSE {FALSE} :
           /\ t' = IF overflow_checks THEN I32_MAX ELSE target
           /\ poisoned' = overflow_checks
           /\ last' = [op |-> "get", key |-> AbsentKey, retBool |-> FALSE, retVal |-> 0,
                       panic |-> overflow_checks, trace |-> NoTrace]
    /\ UNCHANGED <<data, items, list, stage_one, stage_two, watch_dog, c, sz, ops>>
    /\ UNCHANGED <<skipVars, codecVars, unitVars>>

TickNext ==
    \/ Next
    \/ \E target \in TickTargets : MissRun(target)

TickSpec == Init /\ [][TickNext]_vars


(***************************************************************************)
(* The admission scenario of the specification's section 8 (scenario 6),   *)
(* scaled down: distinct cold keys are set once each, sets of one hot key  *)
(* are interleaved, and the run ends with a get of the hot key.            *)
(***************************************************************************)
HotKey == [h |-> 1, c |-> 101]

ColdKeys ==
    { [h |-> 2, c |-> 102], [h |-> 3, c |-> 103], [h |-> 4, c |-> 104],
      [h |-> 5, c |-> 105] }

\* the serial numbers (= values) of the set calls made with `key`
SetsOf(key) ==
    {i \in 1..Len(items) : items[i].key = key.h /\ items[i].conflict = key.c}

\* the value of the most recent set of `key`, 0 if it was never set
LatestValue(key) ==
    IF SetsOf(key) = {} THEN 0
    ELSE CHOOSE i \in SetsOf(key) : \A j \in SetsOf(key) : j <= i

SetCold(key) ==
    /\ last.op # "get"
    /\ SetsOf(key) = {}
    /\ ~poisoned
    /\ LET r == Cache_set(CacheRec, key, Len(items) + 1)
       IN  /\ CacheStore(r.C)
           /\ poisoned' = r.panic
           /\ last' = [op |-> "set", key |-> key, retBool |-> r.ret, retVal |-> 0,
                       panic |-> r.panic, trace |-> r.trace]
    /\ ops' = ops
    /\ UNCHANGED <<skipVars, codecVars, unitVars>>

SetHot ==
    /\ last.op # "get"
    /\ Cardinality(SetsOf(HotKey)) < MaxHotSets
    /\ ~poisoned
    /\ LET r == Cache_set(CacheRec, HotKey, Len(items) + 1)
       IN  /\ CacheStore(r.C)
           /\ poisoned' = r.panic
           /\ last' = [op |-> "set", key |-> HotKey, retBool |-> r.ret, retVal |-> 0,
                       panic |-> r.panic, trace |-> r.trace]
    /\ ops' = ops
    /\ UNCHANGED <<skipVars, codecVars, unitVars>>

GetHot ==
    /\ last.op # "get"
    /\ ~poisoned
    /\ LET r == Cache_get(CacheRec, HotKey)
       IN  /\ CacheStore(r.C)
           /\ poisoned' = r.panic
           /\ last' = [op |-> "get", key |-> HotKey, retBool |-> FALSE, retVal |-> r.ret,
                       panic |-> r.panic, trace |-> r.trace]
    /\ ops' = [ops EXCEPT !.gets = @ + 1]
    /\ UNCHANGED <<skipVars, codecVars, unitVars>>

ScenarioNext ==
    \/ \E key \in ColdKeys : SetCold(key)
    \/ SetHot
    \/ GetHot

ScenarioSpec == Init /\ [][ScenarioNext]_vars

(***************************************************************************)
(* Claims about the cache facade.                                          *)
(***************************************************************************)
TotalCap == lru_sz(sz) + slru_one(sz) + slru_two(sz)

AllLists == list \o stage_one \o stage_two

\* C1: after any sequence of completed Cache set and get calls, the map and the
\* three LRU lists agree: the item of every map entry occurs exactly once over
\* the three lists, and every list element's key maps in the map to that very
\* item.
C1_MapListsAgree ==
    ~poisoned =>
        /\ \A k \in DOMAIN data : Occurrences(AllLists, data[k]) = 1
        /\ \A i \in 1..Len(AllLists) :
               /\ items[AllLists[i]].key \in DOMAIN data
               /\ data[items[AllLists[i]].key] = AllLists[i]

\* the window victim of the last set is in no list and is no map entry's item
VictimDropped ==
    /\ last.trace.lv \notin ListSet(AllLists)
    /\ \A k \in DOMAIN data : data[k] # last.trace.lv

\* C2: when Cache::set evicts lv from the window while the SLRU is full (victim
\* sv) and the watchdog had already seen lv, then lv is dropped iff
\* estimate(lv.key) < estimate(sv.key); otherwise (greater or tie) lv is at the
\* front of stage_one and sv has left stage_one and the map.
C2_AdmitByFrequency ==
    (last.op = "set" /\ ~last.panic /\ last.trace.sv # 0 /\ last.trace.already) =>
        /\ VictimDropped <=> (last.trace.lvCount < last.trace.svCount)
        /\ ~(last.trace.lvCount < last.trace.svCount) =>
               /\ stage_one # <<>>
               /\ Head(stage_one) = last.trace.lv
               /\ last.trace.sv \notin ListSet(stage_one)
               /\ \A k \in DOMAIN data : data[k] # last.trace.sv

\* C3: BloomFilter::allow answers "already seen" (true) exactly when may_exist
\* held before the call and "newly admitted" (false) otherwise; so a set whose
\* window victim the watchdog had never seen drops it without comparing
\* frequencies and returns true.
C3_AllowTellsNewFromSeen ==
    last.trace.allowCalled =>
        /\ last.trace.allowRet = last.trace.already
        /\ (last.op = "set" /\ last.trace.sv # 0 /\ ~last.trace.already) =>
               /\ ~last.trace.compared
               /\ last.retBool
               /\ VictimDropped

\* the run is one of the scenario: more distinct cold keys than the capacity
\* were set once each, the hot key was set repeatedly, and the final get of the
\* hot key has been made
ScenarioRan ==
    /\ last.op = "get"
    /\ Cardinality(SetsOf(HotKey)) >= 2
    /\ Cardinality({k \in ColdKeys : SetsOf(k) # {}}) > TotalCap

\* C4: after a run that sets more distinct keys than the total capacity once
\* each, interleaved with repeated sets of a hot key, the final get of the hot
\* key returns the hot key's value.
C4_HotKeySurvives ==
    ScenarioRan => (~last.panic /\ last.retVal = LatestValue(HotKey))

\* C5: the number of entries of the shared map never exceeds the total
\* capacity, window cap + stage_one_cap + stage_two_cap.
C5_MapWithinCapacity == Cardinality(DOMAIN data) <= TotalCap

\* C5 witness: a set that found the window and the SLRU full has completed and
\* the map holds exactly as many entries as the capacity allows.
C5_Witness ==
    /\ last.op = "set"
    /\ last.trace.sv # 0
    /\ Cardinality(DOMAIN data) = TotalCap


(***************************************************************************)
(* cache/entry.rs: Value and its codec.                                    *)
(* A u64 is four 16-bit limbs, least significant first.                    *)
(***************************************************************************)
MAX_VAR_INT_LEN64 == 10

\* the u64 of a natural below 2^31
U64(x) == <<x % HALF, (x \div HALF) % HALF, 0, 0>>

U64Zero == <<0, 0, 0, 0>>

U64Max == <<HALF - 1, HALF - 1, HALF - 1, HALF - 1>>

\* x >> 7
Shr7(x) ==
    [i \in 1..4 |->
        (x[i] \div 128) + (IF i < 4 THEN (x[i + 1] % 128) * 512 ELSE 0)]

\* (b as u64) << s for a byte b and s < 64; bits shifted past bit 63 are lost
ShlByte(b, s) ==
    LET p == b * Pow2(s % 16)
    IN  [i \in 1..4 |->
            IF i = (s \div 16) + 1 THEN p % HALF
            ELSE IF i = (s \div 16) + 2 THEN (p \div HALF) % HALF
            ELSE 0]

\* x | y
Or64(x, y) == [i \in 1..4 |-> BitOr(x[i], y[i])]

\* x as u8
AsU8(x) == x[1] % 256

\* x >= 0x80
AtLeast0x80(x) == x[1] >= 128 \/ x[2] # 0 \/ x[3] # 0 \/ x[4] # 0

\* size_varint: n starts at 1 and grows by one per 7-bit group of x
RECURSIVE SizeVarintLoop(_, _)
SizeVarintLoop(n, y) ==
    IF y = U64Zero THEN n ELSE SizeVarintLoop(n + 1, Shr7(y))

size_varint(x) == SizeVarintLoop(1, x)

\* A variant of encode_uvarint that forgets the continuation bit.
RECURSIVE encode_uvarint_NoContinuationBit(_)
encode_uvarint_NoContinuationBit(x) ==
    IF AtLeast0x80(x)
    THEN <<AsU8(x)>> \o encode_uvarint_NoContinuationBit(Shr7(x))
    ELSE <<AsU8(x)>>

\* encode_uvarint: the bytes it stores at buf[0..]; it returns their number
RECURSIVE encode_uvarint(_)
encode_uvarint(x) ==
    IF AtLeast0x80(x)
    THEN <<BitOr(AsU8(x), 128)>> \o encode_uvarint(Shr7(x))
    ELSE <<AsU8(x)>>

\* decode_uvarint's loop from index i (0-based) with accumulator x and shift s
RECURSIVE DecodeUvarintLoop(_, _, _, _)
DecodeUvarintLoop(buf, i, x, s) ==
    IF i >= Len(buf) THEN [x |-> U64Zero, sz |-> 0]
    ELSE IF i = MAX_VAR_INT_LEN64 THEN [x |-> U64Zero, sz |-> -(i + 1)]
    ELSE LET b == buf[i + 1]
         IN  IF b < 128
             THEN IF i = MAX_VAR_INT_LEN64 - 1 /\ b > 1
                  THEN [x |-> U64Zero, sz |-> -(i + 1)]
                  ELSE [x |-> Or64(x, ShlByte(b, s)), sz |-> i + 1]
             ELSE DecodeUvarintLoop(buf, i + 1, Or64(x, ShlByte(b % 128, s)), s + 7)

decode_uvarint(buf) == DecodeUvarintLoop(buf, 0, U64Zero, 0)

\* Value::default()
DefaultValue == [meta |-> 0, v |-> <<>>, expires_at |-> U64Zero, version |-> U64Zero]

\* Value::encoded_size
encoded_size(value) == Len(value.v) + 1 + size_varint(value.expires_at)

\* the slice b[from..] of a 0-indexed buffer
SliceFrom(b, from) == SubSeq(b, from + 1, Len(b))

\* b with `bytes` stored at b[start..start + Len(bytes)]
StoreAt(b, start, bytes) ==
    [i \in 1..Len(b) |->
        IF i > start /\ i <= start + Len(bytes) THEN bytes[i - start] ELSE b[i]]

\* Value::encode_value(b): the buffer afterwards and the returned end; an
\* index past the buffer panics
Value_encode_value(value, b) ==
    LET varint == encode_uvarint(value.expires_at)
        start  == 1 + Len(varint)
        end    == start + Len(value.v)
    IN  IF end > Len(b)
        THEN [b |-> b, end |-> 0, panic |-> TRUE]
        ELSE [b |-> StoreAt(StoreAt(StoreAt(b, 0, <<value.meta>>), 1, varint),
                            start, value.v),
              end |-> end, panic |-> FALSE]

\* Value::decode_value(buf) on the Value `self`; indexing an empty buffer or
\* slicing from a negative length converted to usize panics
Value_decode_value(self, buf) ==
    IF Len(buf) = 0 THEN [value |-> self, panic |-> TRUE]
    ELSE LET d == decode_uvarint(SliceFrom(buf, 1))
         IN  IF d.sz < 0 \/ 1 + d.sz > Len(buf)
             THEN [value |-> [self EXCEPT !.meta = buf[1], !.expires_at = d.x],
                   panic |-> TRUE]
             ELSE [value |-> [self EXCEPT !.meta = buf[1], !.expires_at = d.x,
                                          !.v = SliceFrom(buf, 1 + d.sz)],
                   panic |-> FALSE]

(***************************************************************************)
(* The codec runs: a Value is encoded into a caller's buffer and the bytes *)
(* encode_value reported are decoded into another Value (tests::test_value)*)
(***************************************************************************)
ExpiryChoices ==
    { U64Zero, U64(1), U64(127), U64(128), U64(16383), U64(16384), U64(123456),
      U64(1234567890), <<0, 0, 1, 0>>, <<0, 0, 0, HALF \div 2>>, U64Max }

PayloadChoices == { <<>>, <<0>>, <<49>>, <<128, 0>>, <<255, 1, 127>> }

MetaChoices == {0, 2, 255}

CodecValues ==
    [meta : MetaChoices, v : PayloadChoices, expires_at : ExpiryChoices,
     version : {U64(1)}]

\* the Value decode_value is called on: a fresh one or one that held data
DecodeTargets ==
    { DefaultValue,
      [meta |-> 2, v |-> <<7, 7>>, expires_at |-> U64(123456), version |-> U64(3)] }

\* the caller's buffer before the call: zeroed or holding old bytes
BufferFills == {0, 255}

CodecInit ==
    \E value \in CodecValues, target \in DecodeTargets, fill \in BufferFills :
        codec = [pc |-> "new", v |-> value, data |-> [i \in 1..BufLen |-> fill],
                 end |-> 0, vv0 |-> target, vv |-> target, panic |-> FALSE]

\* let end = v.encode_value(&mut data)
Encode ==
    /\ codec.pc = "new"
    /\ LET r == Value_encode_value(codec.v, codec.data)
       IN  codec' = [codec EXCEPT !.pc = "encoded", !.data = r.b, !.end = r.end,
                                  !.panic = r.panic]
    /\ UNCHANGED <<cacheVars, skipVars, unitVars>>

\* vv.decode_value(&data[0..end])
Decode ==
    /\ codec.pc = "encoded"
    /\ ~codec.panic
    /\ LET r == Value_decode_value(codec.vv, SubSeq(codec.data, 1, codec.end))
       IN  codec' = [codec EXCEPT !.pc = "decoded", !.vv = r.value,
                                  !.panic = r.panic]
    /\ UNCHANGED <<cacheVars, skipVars, unitVars>>

\* the cache while a specification does not exercise it: Cache::new(1), idle
CacheParked ==
    /\ sz = 1
    /\ data = EmptyMap
    /\ items = <<>>
    /\ list = <<>>
    /\ stage_one = <<>>
    /\ stage_two = <<>>
    /\ watch_dog = init_filter(1)
    /\ c = counter_new(1, <<0, 0, 0, 0>>)
    /\ t = 0
    /\ poisoned = FALSE
    /\ last = NoCall
    /\ ops = [gets |-> 0]

CodecNext ==
    \/ Encode
    \/ Decode

CodecStart == CacheParked /\ SkipParked /\ UnitsParked /\ CodecInit

CodecSpec == CodecStart /\ [][CodecNext]_vars

\* C10: for every Value v, decoding exactly the bytes encode_value wrote (the
\* first `end` bytes of the buffer, end being the returned length) yields a
\* Value with v's meta, expires_at and payload; the version is not carried
\* through (the decoded Value keeps the version it had).
C10_DecodeOfEncode ==
    codec.pc = "decoded" =>
        /\ ~codec.panic
        /\ codec.vv.meta = codec.v.meta
        /\ codec.vv.expires_at = codec.v.expires_at
        /\ codec.vv.v = codec.v.v
        /\ codec.vv.version = codec.vv0.version

\* C10 witness: a Value with a ten-byte expiry varint and a payload holding
\* bytes >= 0x80 has been encoded into a dirty buffer and decoded into a
\* Value that held other data.
C10_Witness ==
    /\ codec.pc = "decoded"
    /\ codec.v.expires_at = U64Max
    /\ codec.end = 1 + MAX_VAR_INT_LEN64 + 3
    /\ codec.v.v = <<255, 1, 127>>
    /\ codec.data[BufLen] = 255
    /\ codec.vv0 # DefaultValue

\* C11: for every Value v, encoded_size(v) is the number of bytes encode_value
\* writes and returns: 1 for meta, the length of the expiry varint and the
\* length of the payload.
C11_EncodedSizeIsBytesWritten ==
    (codec.pc = "encoded" /\ ~codec.panic) =>
        /\ encoded_size(codec.v) = codec.end
        /\ codec.end = 1 + Len(encode_uvarint(codec.v.expires_at)) + Len(codec.v.v)


(***************************************************************************)
(* Value::decode_value on bytes that no encode_value wrote: a meta byte,   *)
(* a run of continuation bytes, possibly a byte below 0x80, and a tail.    *)
(***************************************************************************)
\* continuation bytes (>= 0x80) opening the expiry field
ContinuationRuns == 0..(MAX_VAR_INT_LEN64 + 1)

ContinuationBytes == {128, 255}

\* what follows the run: nothing, or a byte below 0x80 and the rest
RawTails == { <<>>, <<0>>, <<1>>, <<2>>, <<127>>, <<1, 7>>, <<2, 7>>, <<127, 7, 7>> }

RawBuffers ==
    { <<2>> \o [i \in 1..n |-> b] \o tail :
          n \in ContinuationRuns, b \in ContinuationBytes, tail \in RawTails }

RawInit ==
    \E buf \in RawBuffers, target \in DecodeTargets :
        codec = [pc |-> "raw", data |-> buf, vv0 |-> target, vv |-> target,
                 panic |-> FALSE]

\* vv.decode_value(&data)
DecodeRaw ==
    /\ codec.pc = "raw"
    /\ LET r == Value_decode_value(codec.vv, codec.data)
       IN  codec' = [codec EXCEPT !.pc = "raw_decoded", !.vv = r.value,
                                  !.panic = r.panic]
    /\ UNCHANGED <<cacheVars, skipVars, unitVars>>

RawNext == DecodeRaw

RawStart == CacheParked /\ SkipParked /\ UnitsParked /\ RawInit

RawSpec == RawStart /\ [][RawNext]_vars

\* the expiry field of a raw buffer
ExpiryField == SliceFrom(codec.data, 1)

\* the field has no byte below 0x80 among its first ten bytes, or its tenth
\* byte ends the varint with a value above 1
Malformed(buf) ==
    \/ \A i \in 1..Min(Len(buf), MAX_VAR_INT_LEN64) : buf[i] >= 128
    \/ /\ Len(buf) >= MAX_VAR_INT_LEN64
       /\ \A i \in 1..(MAX_VAR_INT_LEN64 - 1) : buf[i] >= 128
       /\ buf[MAX_VAR_INT_LEN64] > 1

\* C31: decoding a malformed expiry varint (no terminating byte below 0x80
\* within the first 10 bytes, or a 10th byte greater than 1) yields the
\* sentinel (0, negative length), and Value::decode_value of such input
\* neither fails at runtime nor produces a payload from it.
C31_MalformedIsDiscarded ==
    (codec.pc = "raw_decoded" /\ Malformed(ExpiryField)) =>
        /\ decode_uvarint(ExpiryField).x = U64Zero
        /\ decode_uvarint(ExpiryField).sz < 0
        /\ ~codec.panic
        /\ codec.vv.v = codec.vv0.v


(***************************************************************************)
(* memory/utils.rs and the key helpers of cache/skiplist.rs.               *)
(* A key is a sequence of bytes: the user key followed by the 8-byte       *)
(* big-endian encoding of u64::MAX - ts.                                   *)
(***************************************************************************)
\* <[u8]>::cmp of the slices a[i..m] and b[j..n] (1-based, inclusive) as an
\* i32: -1, 0 or 1
RECURSIVE SliceCmp(_, _, _, _, _, _)
SliceCmp(a, i, m, b, j, n) ==
    IF i > m THEN (IF j > n THEN 0 ELSE -1)
    ELSE IF j > n THEN 1
    ELSE IF a[i] < b[j] THEN -1
    ELSE IF a[i] > b[j] THEN 1
    ELSE SliceCmp(a, i + 1, m, b, j + 1, n)

\* the assertion compare_keys opens with fails
compare_keys_panics(key1, key2) == ~(Len(key1) > 8 /\ Len(key2) > 8)

\* compare_keys, for keys that pass its assertion: the user keys first, the
\* 8-byte suffixes on a tie
compare_keys(key1, key2) ==
    LET cmp == SliceCmp(key1, 1, Len(key1) - 8, key2, 1, Len(key2) - 8)
    IN  IF cmp # 0 THEN cmp
        ELSE SliceCmp(key1, Len(key1) - 7, Len(key1), key2, Len(key2) - 7, Len(key2))

parse_key(key) == IF Len(key) < 8 THEN key ELSE SubSeq(key, 1, Len(key) - 8)

\* A same_key that compares the whole keys, version suffix included.
same_key_WholeKey(src, dst) == src = dst

same_key(src, dst) ==
    IF Len(src) # Len(dst) THEN FALSE ELSE parse_key(src) = parse_key(dst)

\* u64::to_be_bytes
ToBeBytes(x) ==
    << x[4] \div 256, x[4] % 256, x[3] \div 256, x[3] % 256,
       x[2] \div 256, x[2] % 256, x[1] \div 256, x[1] % 256 >>

\* u64::from_be_bytes
FromBeBytes(b) ==
    << b[7] * 256 + b[8], b[5] * 256 + b[6], b[3] * 256 + b[4], b[1] * 256 + b[2] >>

\* u64::MAX - x
MaxMinus(x) == [i \in 1..4 |-> (HALF - 1) - x[i]]

parse_ts(key) ==
    IF Len(key) <= 8 THEN U64Zero
    ELSE MaxMinus(FromBeBytes(SubSeq(key, Len(key) - 7, Len(key))))

key_with_ts(key, ts) == key \o ToBeBytes(MaxMinus(ts))

(***************************************************************************)
(* cache/area.rs: the arena.  An arena value is [n, buf].  buf is held as   *)
(* the regions allocated for keys and values: the offset of a region maps  *)
(* to the region's bytes, zero where nothing was stored (the buffer starts *)
(* zeroed and no region is handed out twice).  Keys and values are only    *)
(* read from the start of their region.  The Node structs are kept apart,  *)
(* typed, by offset.                                                       *)
(***************************************************************************)
MAX_HEIGHT == 20

OFFSET_SIZE == 4

NODE_ALIGN == 7

\* size_of::<Node>(): value 8, key_offset 4, key_size 2, height 2, the tower
MAX_NODE_SIZE == 16 + OFFSET_SIZE * MAX_HEIGHT

\* the area_size the skiplists are created with
AreaSize == 10000

(***************************************************************************)
(* Area::n, the offsets and the sizes are u32.  An arena word may reach    *)
(* 2^31 and beyond, so it is held as the 32-bit two's-complement integer   *)
(* with the same bits: 0 .. 2^31-1 are themselves and 2^31 .. 2^32-1 are   *)
(* -2^31 .. -1.  Sizes passed by the model stay below 2^31.                *)
(***************************************************************************)
INT_MAX == 2147483647

\* u32::MAX
U32_MAX == -1

\* a <= b as u32
U32Le(a, b) == IF (a < 0) = (b < 0) THEN a <= b ELSE b < 0

\* a + b as u32 passes 2^32, for 0 <= b < 2^31
U32Carry(a, b) == a < 0 /\ a + b >= 0

\* u32 wrapping addition, for 0 <= b < 2^31
U32WrappingAdd(a, b) ==
    IF a >= 0 /\ a > INT_MAX - b
    THEN ((a - INT_MAX - 1) + b) - INT_MAX - 1
    ELSE a + b

\* Area::new(n): the buffer has n zero bytes and the high-water mark starts at
\* 1.  overflow_checks is the build profile: with overflow checks (debug) a
\* u32 sum that passes 2^32 panics, without them (release) it wraps.
Area_new(n, overflow_checks) ==
    [n |-> 1, buf |-> <<>>, cap |-> n, overflow_checks |-> overflow_checks]

\* the region of `size` bytes at `offset` after `bytes` were stored at its start
WriteBytes(buf, offset, size, bytes) ==
    [o \in (DOMAIN buf) \cup {offset} |->
        IF o = offset
        THEN [j \in 1..size |-> IF j <= Len(bytes) THEN bytes[j] ELSE 0]
        ELSE buf[o]]

\* `size` bytes from `offset` on lie inside the buffer
FitsBuffer(A, offset, size) ==
    ~U32Carry(offset, size) /\ U32Le(U32WrappingAdd(offset, size), A.cap)

\* Area::allocate: fetch_add (which wraps in every build), then the capacity
\* assertion on offset + sz, a u32 sum
allocate(A, size) ==
    [A |-> [A EXCEPT !.n = U32WrappingAdd(@, size)], offset |-> A.n,
     panic |-> IF U32Carry(A.n, size) /\ A.overflow_checks THEN TRUE
               ELSE ~U32Le(U32WrappingAdd(A.n, size), A.cap)]

\* Area::put_node: the offset returned is the allocation's rounded up to 8
put_node(A, h) ==
    LET unused == (MAX_HEIGHT - h) * OFFSET_SIZE
        r == allocate(A, MAX_NODE_SIZE - unused + NODE_ALIGN)
    IN  [A |-> r.A, offset |-> (U32WrappingAdd(r.offset, NODE_ALIGN) \div 8) * 8,
         panic |-> r.panic]

\* Area::put_key up to the copy, for a key of key_sz bytes: slicing
\* buf[offset..end] panics when end, a u32 sum, wrapped
put_key_region(A, key_sz) ==
    LET r == allocate(A, key_sz)
    IN  [A |-> r.A, offset |-> r.offset,
         panic |-> r.panic \/ ~FitsBuffer(A, r.offset, key_sz)]

\* Area::put_key
put_key(A, key) ==
    LET r == put_key_region(A, Len(key))
    IN  [A |-> IF r.panic THEN r.A
               ELSE [r.A EXCEPT !.buf = WriteBytes(@, r.offset, Len(key), key)],
         offset |-> r.offset, panic |-> r.panic]

\* the bytes encode_value stores for a value
EncodedBytes(value) ==
    LET r == Value_encode_value(value, [i \in 1..encoded_size(value) |-> 0])
    IN  SubSeq(r.b, 1, r.end)

\* Area::put_value: encode_value writes into buf[offset..] and panics when its
\* bytes pass the end of the buffer
put_value(A, value) ==
    LET r == allocate(A, encoded_size(value))
        panic == r.panic \/ ~FitsBuffer(A, r.offset, Len(EncodedBytes(value)))
    IN  [A |-> IF panic THEN r.A
               ELSE [r.A EXCEPT !.buf = WriteBytes(@, r.offset, encoded_size(value),
                                                  EncodedBytes(value))],
         offset |-> r.offset, panic |-> panic]

\* Area::get_key
get_key(buf, offset, size) == SubSeq(buf[offset], 1, size)

\* Area::get_value
get_value(buf, offset, size) ==
    Value_decode_value(DefaultValue, SubSeq(buf[offset], 1, size)).value

(***************************************************************************)
(* cache/skiplist.rs: nodes, construction and the readers.                 *)
(***************************************************************************)
\* the packed u64 handle of a value, as its two u32 halves
encode_value(val_offset, val_size) == [hi |-> val_size, lo |-> val_offset]

decode_value(value) == [val_offset |-> value.lo, val_size |-> value.hi]

\* new_node: the node, its key and its value are placed in the arena
new_node(A, nds, key, v, h) ==
    LET pn == put_node(A, h)
        pk == put_key(pn.A, key)
        pv == put_value(pk.A, v)
        node == [value |-> encode_value(pv.offset, encoded_size(v)),
                 key_offset |-> pk.offset, key_size |-> Len(key), height |-> h,
                 tower |-> [lvl \in 0..(h - 1) |-> 0]]
    IN  [A |-> pv.A,
         nodes |-> [o \in (DOMAIN nds) \cup {pn.offset} |->
                        IF o = pn.offset THEN node ELSE nds[o]],
         offset |-> pn.offset,
         panic |-> pn.panic \/ pk.panic \/ pv.panic]

\* new_skip_list: the head sentinel of full height with an empty key
new_skip_list == new_node(Area_new(AreaSize, TRUE), <<>>, <<>>, DefaultValue, MAX_HEIGHT)

\* Node::get_next_offset on the node at offset nd (0 stands for None)
get_next(nd, lvl) == nodes[nd].tower[lvl]

\* the key bytes of the node at offset nd
NodeKey(nd) == get_key(area_buf, nodes[nd].key_offset, nodes[nd].key_size)

\* `x` is the head: x.key_offset == head.key_offset
IsHead(x) == nodes[x].key_offset = nodes[head_offset].key_offset

\* A find_near loop body that, asked for a strictly greater key, answers
\* with the equal node itself.
find_near_step_EqualForGreater(x, level, key, less, allow_equal) ==
    LET next == get_next(x, level)
        down == [done |-> FALSE, x |-> x, level |-> level - 1, node |-> 0, eq |-> FALSE]
        back == [done |-> TRUE, x |-> x, level |-> level,
                 node |-> IF IsHead(x) THEN 0 ELSE x, eq |-> FALSE]
        none == [done |-> TRUE, x |-> x, level |-> level, node |-> 0, eq |-> FALSE]
    IN  IF next = 0
        THEN IF level > 0 THEN down ELSE IF ~less THEN none ELSE back
        ELSE LET cmp == compare_keys(key, NodeKey(next))
             IN  IF cmp > 0
                 THEN [done |-> FALSE, x |-> next, level |-> level, node |-> 0, eq |-> FALSE]
                 ELSE IF cmp = 0
                 THEN IF allow_equal
                      THEN [none EXCEPT !.node = next, !.eq = TRUE]
                      ELSE IF ~less THEN [none EXCEPT !.node = next]
                      ELSE IF level > 0 THEN down ELSE back
                 ELSE IF level > 0 THEN down
                 ELSE IF ~less THEN [none EXCEPT !.node = next]
                 ELSE back

\* one pass through the loop of find_near at node x and `level`
find_near_step(x, level, key, less, allow_equal) ==
    LET next == get_next(x, level)
        down == [done |-> FALSE, x |-> x, level |-> level - 1, node |-> 0, eq |-> FALSE]
        back == [done |-> TRUE, x |-> x, level |-> level,
                 node |-> IF IsHead(x) THEN 0 ELSE x, eq |-> FALSE]
        none == [done |-> TRUE, x |-> x, level |-> level, node |-> 0, eq |-> FALSE]
    IN  IF next = 0
        THEN IF level > 0 THEN down ELSE IF ~less THEN none ELSE back
        ELSE LET cmp == compare_keys(key, NodeKey(next))
             IN  IF cmp > 0
                 THEN [done |-> FALSE, x |-> next, level |-> level, node |-> 0, eq |-> FALSE]
                 ELSE IF cmp = 0
                 THEN IF allow_equal
                      THEN [none EXCEPT !.node = next, !.eq = TRUE]
                      ELSE IF ~less THEN [none EXCEPT !.node = get_next(next, 0)]
                      ELSE IF level > 0 THEN down ELSE back
                 ELSE IF level > 0 THEN down
                 ELSE IF ~less THEN [none EXCEPT !.node = next]
                 ELSE back

\* the loop of find_near; `fuel` bounds the passes (a list of k nodes and
\* height h needs fewer than k + h + 1), node -1 reports that it ran out
RECURSIVE FindNearLoop(_, _, _, _, _, _)
FindNearLoop(x, level, key, less, allow_equal, fuel) ==
    IF fuel = 0 THEN [node |-> -1, eq |-> FALSE]
    ELSE LET r == find_near_step(x, level, key, less, allow_equal)
         IN  IF r.done THEN [node |-> r.node, eq |-> r.eq]
             ELSE FindNearLoop(r.x, r.level, key, less, allow_equal, fuel - 1)

\* SkipList::find_near: the node found (0 for None) and the equality flag
find_near(key, less, allow_equal) ==
    FindNearLoop(head_offset, sl_height - 1, key, less, allow_equal,
                 Cardinality(DOMAIN nodes) + sl_height + 1)

\* SkipList::get_value
NodeValue(nd) ==
    LET h == decode_value(nodes[nd].value)
    IN  get_value(area_buf, h.val_offset, h.val_size)

\* SkipList::search
search(key) ==
    LET r == find_near(key, FALSE, TRUE)
    IN  IF r.node <= 0 THEN DefaultValue
        ELSE IF ~same_key(key, NodeKey(r.node)) THEN DefaultValue
        ELSE NodeValue(r.node)


(***************************************************************************)
(* cache/iterator.rs: SkipListIter holds the node it stands on (n, 0 for   *)
(* None) and the flag i, set once next has run.                            *)
(***************************************************************************)
\* iterator::new, which SkipList::iter returns
iterator_new == [n |-> 0, i |-> FALSE]

\* SkipListIter::item: the Entry of the node the iterator stands on
SkipListIter_item(it) ==
    IF it.n = 0 THEN [some |-> FALSE]
    ELSE LET v == NodeValue(it.n)
         IN  [some |-> TRUE,
              e |-> [key |-> NodeKey(it.n), value |-> v.v,
                     expires_at |-> v.expires_at, meta |-> v.meta,
                     version |-> v.version]]

\* SkipListIter::next: the iterator afterwards and the Option returned
SkipListIter_next(it) ==
    IF ~it.i
    THEN LET first == [n |-> head_offset, i |-> TRUE]
         IN  [it |-> first, out |-> SkipListIter_item(first)]
    ELSE IF it.n = 0 THEN [it |-> it, out |-> [some |-> FALSE]]
    ELSE LET next_n == get_next(it.n, 0)
         IN  IF next_n # 0
             THEN LET moved == [it EXCEPT !.n = next_n]
                  IN  [it |-> moved, out |-> SkipListIter_item(moved)]
             ELSE [it |-> [it EXCEPT !.n = 0], out |-> [some |-> FALSE]]

\* what k calls of next return, in order
RECURSIVE IterOuts(_, _)
IterOuts(it, k) ==
    IF k = 0 THEN <<>>
    ELSE LET r == SkipListIter_next(it)
         IN  <<r.out>> \o IterOuts(r.it, k - 1)


(***************************************************************************)
(* SkipList::add, one step per atomic access.  A writer's locals:          *)
(*   pc          where it stands in add                                    *)
(*   key, v      the entry's key and Value                                 *)
(*   list_height the height last loaded                                    *)
(*   prev, next  the splice arrays, indexed 0..MAX_HEIGHT                  *)
(*   i           the level being worked on                                 *)
(*   before, ctx the cursor of the running find_splice_for_level and the   *)
(*               place it was called from                                  *)
(*   height, x   the new node's height and offset                          *)
(*   vo          the offset put_value returned for an upsert               *)
(***************************************************************************)
Writers == {1, 2}

\* the skiplist's Area; no sum of this specification comes near 2^32, so the
\* build profile makes no difference to it
SkipArea ==
    [n |-> area_n, buf |-> area_buf, cap |-> AreaSize, overflow_checks |-> TRUE]

UserKeyA == <<97>>

UserKeyAB == <<97, 98>>

UserKeyB == <<98>>

\* the keys the writers add
AddKeys ==
    { key_with_ts(UserKeyA, U64(2)), key_with_ts(UserKeyA, U64(1)),
      key_with_ts(UserKeyAB, U64(1)) }

\* the keys the readers ask for
QueryKeys ==
    AddKeys \cup
    { key_with_ts(UserKeyA, U64(3)), key_with_ts(UserKeyA, U64(0)),
      key_with_ts(UserKeyAB, U64(2)), key_with_ts(UserKeyB, U64(1)),
      key_with_ts(<<96>>, U64(1)) }

\* the Value of the k-th add started: all differ, with and without expiry
TicketValue(k) ==
    [meta |-> k, v |-> <<k>>, expires_at |-> U64(k % 2), version |-> U64(k)]

ZeroLevels == [lvl \in 0..MAX_HEIGHT |-> 0]

IdleWriter ==
    [pc |-> "idle", key |-> <<>>, v |-> DefaultValue, list_height |-> 0,
     prev |-> ZeroLevels, next |-> ZeroLevels, i |-> 0, before |-> 0,
     ctx |-> "none", height |-> 0, x |-> 0, vo |-> 0]

\* A find_splice_for_level loop body that stops at the first node it meets
\* unless that node has the key itself.
find_splice_step_NoCompare(key, before, level) ==
    LET next == get_next(before, level)
    IN  IF next = 0
        THEN [done |-> TRUE, before |-> before, next |-> next, panic |-> FALSE]
        ELSE IF compare_keys(key, NodeKey(next)) = 0
        THEN [done |-> TRUE, before |-> next, next |-> next, panic |-> FALSE]
        ELSE [done |-> TRUE, before |-> before, next |-> next, panic |-> FALSE]

\* A find_splice_for_level loop body that does not report the equality case.
find_splice_step_NoEquality(key, before, level) ==
    LET next == get_next(before, level)
    IN  IF next = 0
        THEN [done |-> TRUE, before |-> before, next |-> next, panic |-> FALSE]
        ELSE IF compare_keys(key, NodeKey(next)) <= 0
        THEN [done |-> TRUE, before |-> before, next |-> next, panic |-> FALSE]
        ELSE [done |-> FALSE, before |-> next, next |-> 0, panic |-> FALSE]

\* one pass through the loop of find_splice_for_level: one tower load
find_splice_step(key, before, level) ==
    LET next == get_next(before, level)
    IN  IF next = 0
        THEN [done |-> TRUE, before |-> before, next |-> next, panic |-> FALSE]
        ELSE IF compare_keys_panics(key, NodeKey(next))
        THEN [done |-> TRUE, before |-> before, next |-> next, panic |-> TRUE]
        ELSE LET cmp == compare_keys(key, NodeKey(next))
             IN  IF cmp = 0
                 THEN [done |-> TRUE, before |-> next, next |-> next, panic |-> FALSE]
                 ELSE IF cmp < 0
                 THEN [done |-> TRUE, before |-> before, next |-> next, panic |-> FALSE]
                 ELSE [done |-> FALSE, before |-> next, next |-> 0, panic |-> FALSE]

\* the writer has returned from add
Finished(wr) == IdleWriter

Panicked(wr) == [wr EXCEPT !.pc = "panicked"]

\* Locals that add will not read again are cleared, so that states differing
\* only in dead locals coincide: the splice entries of levels below lvl once
\* the loop has reached lvl, and those at or above the new node's height.
LiveFrom(a, lvl, h) ==
    [l \in 0..MAX_HEIGHT |-> IF l >= lvl /\ l < h THEN a[l] ELSE 0]

\* the top of the loop body of `for i in 0..height` at level lvl
EnterLevel(wr, lvl) ==
    IF lvl = wr.height THEN Finished(wr)
    ELSE LET live == [wr EXCEPT !.prev = LiveFrom(wr.prev, lvl, wr.height),
                                !.next = LiveFrom(wr.next, lvl, wr.height),
                                !.list_height = 0, !.before = 0, !.ctx = "none",
                                !.i = lvl]
         IN  IF wr.prev[lvl] = 0
             THEN IF lvl > 1
                  THEN [live EXCEPT !.pc = "splice", !.ctx = "fromhead",
                                    !.before = head_offset]
                  ELSE Panicked(live)
             ELSE [live EXCEPT !.pc = "cas"]

\* the key was found in node nd: add goes on to replace nd's value
ToUpsert(wr, nd) ==
    [wr EXCEPT !.pc = "upsert_put", !.prev = [ZeroLevels EXCEPT ![wr.i] = nd],
               !.next = ZeroLevels, !.before = 0, !.ctx = "none",
               !.list_height = 0, !.height = 0, !.x = 0]

\* add is called: the height is loaded and the descent starts at the head
AddBegin(w, key) ==
    /\ writers[w].pc = "idle"
    /\ tickets < MaxAdds
    /\ \A u \in Writers : u < w => writers[u].pc # "idle"
    /\ writers' = [writers EXCEPT ![w] =
           [IdleWriter EXCEPT !.pc = "splice", !.ctx = "descent", !.key = key,
                              !.v = TicketValue(tickets + 1),
                              !.list_height = sl_height,
                              !.prev = [ZeroLevels EXCEPT ![sl_height] = head_offset],
                              !.i = sl_height - 1, !.before = head_offset]]
    /\ tickets' = tickets + 1
    /\ UNCHANGED <<sl_height, head_offset, area_n, area_buf, nodes, latest>>
    /\ UNCHANGED <<cacheVars, codecVars, unitVars>>

\* one pass of find_splice_for_level, and what add does with its result
AddSplice(w) ==
    /\ writers[w].pc = "splice"
    /\ LET wr == writers[w]
           r  == find_splice_step(wr.key, wr.before, wr.i)
           got == [wr EXCEPT !.prev[wr.i] = r.before, !.next[wr.i] = r.next,
                             !.before = 0]
           equal == r.before = r.next
       IN  writers' = [writers EXCEPT ![w] =
               IF r.panic THEN Panicked(wr)
               ELSE IF ~r.done THEN [wr EXCEPT !.before = r.before]
               ELSE IF wr.ctx = "descent"
               THEN IF equal THEN ToUpsert(got, r.before)
                    ELSE IF wr.i > 0
                    THEN [got EXCEPT !.i = wr.i - 1, !.before = r.before]
                    ELSE [got EXCEPT !.pc = "new_node", !.ctx = "none",
                                     !.list_height = 0]
               ELSE IF wr.ctx = "fromhead"
               THEN IF equal THEN Panicked(got)
                    ELSE [got EXCEPT !.pc = "cas", !.ctx = "none"]
               ELSE IF equal
                    THEN IF wr.i = 0 THEN ToUpsert(got, r.before)
                         ELSE Panicked(got)
                    ELSE [got EXCEPT !.pc = "cas", !.ctx = "none"]]
    /\ UNCHANGED <<sl_height, head_offset, area_n, area_buf, nodes, latest, tickets>>
    /\ UNCHANGED <<cacheVars, codecVars, unitVars>>

\* the key is present: put_value places the new Value in the arena
AddPutValue(w) ==
    /\ writers[w].pc = "upsert_put"
    /\ LET wr == writers[w]
           r  == put_value(SkipArea, wr.v)
       IN  /\ area_n' = r.A.n
           /\ area_buf' = r.A.buf
           /\ writers' = [writers EXCEPT ![w] =
                  IF r.panic THEN Panicked(wr)
                  ELSE [wr EXCEPT !.pc = "upsert_set", !.vo = r.offset]]
    /\ UNCHANGED <<sl_height, head_offset, nodes, latest, tickets>>
    /\ UNCHANGED <<cacheVars, codecVars, unitVars>>

\* set_value stores the packed handle into the node found, and add returns
AddSetValue(w) ==
    /\ writers[w].pc = "upsert_set"
    /\ LET wr == writers[w]
           nd == wr.prev[wr.i]
       IN  /\ nodes' = [nodes EXCEPT ![nd].value =
                            encode_value(wr.vo, encoded_size(wr.v))]
           /\ latest' = MapInsert(latest, wr.key, wr.v)
           /\ writers' = [writers EXCEPT ![w] = Finished(wr)]
    /\ UNCHANGED <<sl_height, head_offset, area_n, area_buf, tickets>>
    /\ UNCHANGED <<cacheVars, codecVars, unitVars>>

\* random_height and new_node
AddNewNode(w, h) ==
    /\ writers[w].pc = "new_node"
    /\ LET wr == writers[w]
           r  == new_node(SkipArea, nodes, wr.key, wr.v, h)
       IN  /\ area_n' = r.A.n
           /\ area_buf' = r.A.buf
           /\ nodes' = r.nodes
           /\ writers' = [writers EXCEPT ![w] =
                  IF r.panic THEN Panicked(wr)
                  ELSE [wr EXCEPT !.pc = "height_load", !.height = h, !.x = r.offset,
                                  !.prev = LiveFrom(wr.prev, 0, h),
                                  !.next = LiveFrom(wr.next, 0, h)]]
    /\ UNCHANGED <<sl_height, head_offset, latest, tickets>>
    /\ UNCHANGED <<cacheVars, codecVars, unitVars>>

\* list_height = self.get_height()
AddHeightLoad(w) ==
    /\ writers[w].pc = "height_load"
    /\ LET wr == [writers[w] EXCEPT !.list_height = sl_height]
       IN  writers' = [writers EXCEPT ![w] =
               IF wr.height > wr.list_height THEN [wr EXCEPT !.pc = "height_cas"]
               ELSE EnterLevel(wr, 0)]
    /\ UNCHANGED <<sl_height, head_offset, area_n, area_buf, nodes, latest, tickets>>
    /\ UNCHANGED <<cacheVars, codecVars, unitVars>>

\* A height step that stores the new node's height without comparing the
\* height it loaded with the one the list has now.
AddHeightCas_Store(w) ==
    /\ writers[w].pc = "height_cas"
    /\ LET wr == writers[w]
       IN  /\ sl_height' = wr.height
           /\ writers' = [writers EXCEPT ![w] = EnterLevel(wr, 0)]
    /\ UNCHANGED <<head_offset, area_n, area_buf, nodes, latest, tickets>>
    /\ UNCHANGED <<cacheVars, codecVars, unitVars>>

\* self.height.compare_exchange(list_height, height)
AddHeightCas(w) ==
    /\ writers[w].pc = "height_cas"
    /\ LET wr == writers[w]
       IN  IF sl_height = wr.list_height
           THEN /\ sl_height' = wr.height
                /\ writers' = [writers EXCEPT ![w] = EnterLevel(wr, 0)]
           ELSE /\ sl_height' = sl_height
                /\ writers' = [writers EXCEPT ![w] =
                       [wr EXCEPT !.pc = "height_load", !.list_height = 0]]
    /\ UNCHANGED <<head_offset, area_n, area_buf, nodes, latest, tickets>>
    /\ UNCHANGED <<cacheVars, codecVars, unitVars>>

\* A tower step that, when its compare_exchange fails, tries again with the
\* splice it has instead of searching the level anew.
AddCas_StaleRetry(w) ==
    /\ writers[w].pc = "cas"
    /\ LET wr == writers[w]
           p  == wr.prev[wr.i]
           set == [nodes EXCEPT ![wr.x].tower[wr.i] = wr.next[wr.i]]
       IN  IF nodes[p].tower[wr.i] = wr.next[wr.i]
           THEN /\ nodes' = [set EXCEPT ![p].tower[wr.i] = wr.x]
                /\ latest' = IF wr.i = 0 THEN MapInsert(latest, wr.key, wr.v)
                             ELSE latest
                /\ writers' = [writers EXCEPT ![w] = EnterLevel(wr, wr.i + 1)]
           ELSE /\ nodes' = set
                /\ latest' = latest
                /\ writers' = writers
    /\ UNCHANGED <<sl_height, head_offset, area_n, area_buf, tickets>>
    /\ UNCHANGED <<cacheVars, codecVars, unitVars>>

\* A tower step that goes on to the next level whether or not its
\* compare_exchange took effect.
AddCas_NoRetry(w) ==
    /\ writers[w].pc = "cas"
    /\ LET wr == writers[w]
           p  == wr.prev[wr.i]
           set == [nodes EXCEPT ![wr.x].tower[wr.i] = wr.next[wr.i]]
       IN  IF nodes[p].tower[wr.i] = wr.next[wr.i]
           THEN /\ nodes' = [set EXCEPT ![p].tower[wr.i] = wr.x]
                /\ latest' = IF wr.i = 0 THEN MapInsert(latest, wr.key, wr.v)
                             ELSE latest
                /\ writers' = [writers EXCEPT ![w] = EnterLevel(wr, wr.i + 1)]
           ELSE /\ nodes' = set
                /\ latest' = latest
                /\ writers' = [writers EXCEPT ![w] = EnterLevel(wr, wr.i + 1)]
    /\ UNCHANGED <<sl_height, head_offset, area_n, area_buf, tickets>>
    /\ UNCHANGED <<cacheVars, codecVars, unitVars>>

\* x.tower[i] = next[i], then prev[i].tower[i].compare_exchange(next[i], x)
AddCas(w) ==
    /\ writers[w].pc = "cas"
    /\ LET wr == writers[w]
           p  == wr.prev[wr.i]
           set == [nodes EXCEPT ![wr.x].tower[wr.i] = wr.next[wr.i]]
       IN  IF nodes[p].tower[wr.i] = wr.next[wr.i]
           THEN /\ nodes' = [set EXCEPT ![p].tower[wr.i] = wr.x]
                /\ latest' = IF wr.i = 0 THEN MapInsert(latest, wr.key, wr.v)
                             ELSE latest
                /\ writers' = [writers EXCEPT ![w] = EnterLevel(wr, wr.i + 1)]
           ELSE /\ nodes' = set
                /\ latest' = latest
                /\ writers' = [writers EXCEPT ![w] =
                       [wr EXCEPT !.pc = "splice", !.ctx = "retry", !.before = p]]
    /\ UNCHANGED <<sl_height, head_offset, area_n, area_buf, tickets>>
    /\ UNCHANGED <<cacheVars, codecVars, unitVars>>

\* new_skip_list(10000) and the writers about to call add
SkipInit ==
    /\ sl_height = 1
    /\ head_offset = new_skip_list.offset
    /\ area_n = new_skip_list.A.n
    /\ area_buf = new_skip_list.A.buf
    /\ nodes = new_skip_list.nodes
    /\ writers = [w \in Writers |-> IdleWriter]
    /\ latest = EmptyMap
    /\ tickets = 0

SkipNext ==
    \/ \E w \in Writers, key \in AddKeys : AddBegin(w, key)
    \/ \E w \in Writers : AddSplice(w)
    \/ \E w \in Writers : AddPutValue(w)
    \/ \E w \in Writers : AddSetValue(w)
    \/ \E w \in Writers, h \in 1..Min(MAX_HEIGHT, MaxCoinFlips + 1) : AddNewNode(w, h)
    \/ \E w \in Writers : AddHeightLoad(w)
    \/ \E w \in Writers : AddHeightCas(w)
    \/ \E w \in Writers : AddCas(w)

SkipStart == CacheParked /\ CodecParked /\ UnitsParked /\ SkipInit

SkipSpec == SkipStart /\ [][SkipNext]_vars

\* Fair scheduling of writer w: no step of add that w stands before is put
\* off forever.  The step of random_height and new_node is enabled exactly
\* while w's pc stands at it and is the only step that moves the pc from
\* there; its condition is written out in that form.  Whether and when add
\* is called is left to the callers.
FairWriter(w) ==
    /\ WF_vars(AddSplice(w))
    /\ WF_vars(AddPutValue(w))
    /\ WF_vars(AddSetValue(w))
    /\ []<>(writers[w].pc # "new_node")
    /\ WF_vars(AddHeightLoad(w))
    /\ WF_vars(AddHeightCas(w))
    /\ WF_vars(AddCas(w))

\* the adds of SkipSpec, with at most MaxFairAdds calls of add
FairSkipNext ==
    \/ \E w \in Writers, key \in AddKeys : tickets < MaxFairAdds /\ AddBegin(w, key)
    \/ \E w \in Writers : AddSplice(w)
    \/ \E w \in Writers : AddPutValue(w)
    \/ \E w \in Writers : AddSetValue(w)
    \/ \E w \in Writers, h \in 1..Min(MAX_HEIGHT, MaxCoinFlips + 1) : AddNewNode(w, h)
    \/ \E w \in Writers : AddHeightLoad(w)
    \/ \E w \in Writers : AddHeightCas(w)
    \/ \E w \in Writers : AddCas(w)

FairSkipSpec ==
    SkipStart /\ [][FairSkipNext]_vars /\ \A w \in Writers : FairWriter(w)


(***************************************************************************)
(* Claims about the skiplist.                                              *)
(***************************************************************************)
\* the nodes met walking level lvl from node x on, in order; `fuel` bounds
\* the walk
RECURSIVE ChainFrom(_, _, _)
ChainFrom(x, lvl, fuel) ==
    IF x = 0 \/ fuel = 0 THEN <<>>
    ELSE <<x>> \o ChainFrom(get_next(x, lvl), lvl, fuel - 1)

\* the nodes linked at level lvl, head excluded
Chain(lvl) ==
    ChainFrom(get_next(head_offset, lvl), lvl, Cardinality(DOMAIN nodes))

Linked == ListSet(Chain(0))

AllIdle == \A w \in Writers : writers[w].pc = "idle"

\* The states the readers are evaluated in: every writer is between adds or
\* has an add in progress that stands before one of its tower CAS steps.  The
\* list changes only by those steps, so these states show it with no, one
\* or two nodes partly linked.
ReadersRun == \A w \in Writers : writers[w].pc \in {"idle", "cas"}

\* C6: under any interleaving of adds, in every reachable state, at every
\* level L, every node X reachable from the head at level L with a non-null
\* successor Y = X.tower[L] has key(X) < key(Y) under compare_keys; the head
\* counts as smaller than every key.
C6_LevelsOrdered ==
    \A lvl \in 0..(MAX_HEIGHT - 1) :
        LET ch == Chain(lvl)
        IN  \A j \in 1..Len(ch) :
                get_next(ch[j], lvl) # 0 =>
                    compare_keys(NodeKey(ch[j]), NodeKey(get_next(ch[j], lvl))) < 0

\* C6 witness: a writer whose CAS at a level above the base failed, because
\* the other writer linked a node there first, is searching that level again
\* while the base level already holds two nodes.
C6_Witness ==
    /\ Len(Chain(0)) >= 2
    /\ \E w \in Writers :
           /\ writers[w].pc = "splice"
           /\ writers[w].ctx = "retry"
           /\ writers[w].i >= 1

\* the value handle of node nd designates the bytes encode_value stored for v
HandleHolds(nd, v) ==
    LET h == decode_value(nodes[nd].value)
    IN  /\ h.val_size = encoded_size(v)
        /\ get_key(area_buf, h.val_offset, Len(EncodedBytes(v))) = EncodedBytes(v)

UserKey(key) == SubSeq(key, 1, Len(key) - 8)

\* meta, expires_at and payload agree
SameValue(a, b) == a.meta = b.meta /\ a.expires_at = b.expires_at /\ a.v = b.v

\* the Value get_value reads from the region put_value filled for v, with
\* the size encoded_size(v) the writer recorded
ReadBack(v) ==
    LET bytes == EncodedBytes(v)
    IN  Value_decode_value(DefaultValue,
            [j \in 1..encoded_size(v) |->
                IF j <= Len(bytes) THEN bytes[j] ELSE 0]).value

\* C12: storing a key and a Value in the arena and reading them back with the
\* sizes the writer recorded round-trips: every key that was added is read
\* back byte for byte from its node's key region, and the Value read through
\* the node's handle (offset and encoded_size) has the meta, expires_at and
\* payload of the Value that was written, with no extra or missing bytes.
C12_ArenaRoundTrip ==
    /\ \A k \in DOMAIN latest : \E x \in Linked :
           get_key(area_buf, nodes[x].key_offset, Len(k)) = k
    /\ \A x \in Linked : SameValue(NodeValue(x), latest[NodeKey(x)])

\* the keys whose add took effect that are not smaller than key
NotBefore(key) == {k \in DOMAIN latest : compare_keys(key, k) <= 0}

\* the smallest of them
Nearest(key) ==
    CHOOSE k \in NotBefore(key) : \A o \in NotBefore(key) : compare_keys(k, o) <= 0

ComparedWith(key) == {<<x, compare_keys(NodeKey(x), key)>> : x \in Linked}

\* the pairs of linked nodes <<x, y>> with key(x) <= key(y)
InOrder ==
    {p \in Linked \X Linked : compare_keys(NodeKey(p[1]), NodeKey(p[2])) <= 0}

\* does a find_near mode admit a node whose key compares as cmp with the query
Admits(cmp, less, allow_equal) ==
    IF cmp = 0 THEN allow_equal ELSE IF cmp < 0 THEN less ELSE ~less

\* the neighbour the mode asks for among the compared nodes `rel`: the
\* largest admitted node when less, the smallest otherwise; 0 when there is
\* none.  `ord` is InOrder.
Neighbour(rel, ord, less, allow_equal) ==
    LET adm == {p[1] : p \in {q \in rel : Admits(q[2], less, allow_equal)}}
    IN  IF adm = {} THEN 0
        ELSE CHOOSE x \in adm :
                 \A y \in adm : IF less THEN <<y, x>> \in ord ELSE <<x, y>> \in ord

\* C9: for every set of inserted keys and every query key, find_near(key,
\* less, allow_equal) returns the neighbour of its mode - (false,false) the
\* smallest node > key, (false,true) the smallest >= key, (true,false) the
\* largest < key, (true,true) the largest <= key - or None when there is
\* none, never the head; the flag is true iff the returned node's key equals
\* the query key.  Checked between adds and beside adds in progress.
C9_FindNearMatrix ==
    ReadersRun =>
        LET ord == InOrder
        IN  \A key \in QueryKeys :
                LET rel == ComparedWith(key)
                IN  \A less \in BOOLEAN, allow_equal \in BOOLEAN :
                        LET r == find_near(key, less, allow_equal)
                        IN  /\ r.node = Neighbour(rel, ord, less, allow_equal)
                            /\ r.node # head_offset
                            /\ r.eq <=> (r.node # 0 /\ <<r.node, 0>> \in rel)

\* C9 witness: three nodes of different heights are linked, and for an
\* inserted key the four modes give four different answers: the node itself
\* with the flag set, its successor, its predecessor.
C9_Witness ==
    /\ Len(Chain(0)) = 3
    /\ sl_height >= 2
    /\ \E key \in DOMAIN latest :
           /\ find_near(key, FALSE, TRUE).eq
           /\ find_near(key, TRUE, TRUE).eq
           /\ find_near(key, FALSE, FALSE).node \notin {0, find_near(key, FALSE, TRUE).node}
           /\ find_near(key, TRUE, FALSE).node \notin {0, find_near(key, FALSE, TRUE).node}

\* the nodes whose add is still running (or has unwound)
InProgress == {writers[w].x : w \in Writers} \ {0}

\* the nodes made by an add that has returned
Completed == DOMAIN nodes \ (InProgress \cup {head_offset})

\* the height is within [1, MAX_HEIGHT], no add that made a node and has
\* returned left it below that node's height, and no level at or above it
\* holds a node
HeightCovers ==
    /\ sl_height \in 1..MAX_HEIGHT
    /\ \A x \in Completed : sl_height >= nodes[x].height
    /\ \A lvl \in 0..(MAX_HEIGHT - 1) : lvl >= sl_height => Chain(lvl) = <<>>

\* C28: under any interleaving of adds the skiplist's height never decreases
\* and stays within [1, MAX_HEIGHT]; once an add that created a node of
\* height h has completed the list height is at least h, and at no time is
\* a node linked at a level at or above the current list height.
C28_HeightCovers ==
    /\ []HeightCovers
    /\ [][sl_height' >= sl_height]_vars

\* C28 witness: a writer that loaded the height 1 for a node of height 2
\* stands before its compare_exchange, which will fail: the other writer
\* has raised the height to 3 meanwhile and linked its node at the top
\* level.
C28_Witness ==
    /\ sl_height = 3
    /\ Chain(2) # <<>>
    /\ \E w \in Writers :
           /\ writers[w].pc = "height_cas"
           /\ writers[w].list_height = 1
           /\ writers[w].height = 2

\* C29: in every reachable state under any interleaving of adds, every node
\* reachable from the head at a level L > 0 is reachable from the head at
\* level 0, and a node linked at level L is linked at every level below L.
C29_LevelsNested ==
    \A lvl \in 1..(MAX_HEIGHT - 1) :
        /\ ListSet(Chain(lvl)) \subseteq ListSet(Chain(lvl - 1))
        /\ ListSet(Chain(lvl)) \subseteq Linked

\* C29 witness: a writer has linked its node at levels 0 and 1 and not yet
\* at level 2, and the base level holds a node that level 1 does not.
C29_Witness ==
    /\ ListSet(Chain(1)) # Linked
    /\ \E w \in Writers :
           /\ writers[w].pc \in {"splice", "cas"}
           /\ writers[w].i = 2
           /\ writers[w].x \in ListSet(Chain(1))
           /\ writers[w].x \notin ListSet(Chain(2))

\* what iter() returns when it is run to its end and two calls beyond
Yielded == IterOuts(iterator_new, Cardinality(DOMAIN nodes) + 2)

\* C30: SkipList::iter() walks level 0 and yields exactly one Entry per
\* distinct inserted key, in ascending compare_keys order, each carrying the
\* key's latest value, and nothing else: repeated adds of one key yield one
\* entry, the head sentinel with its empty key is not among them, and after
\* the last node next returns None forever.
C30_IterYieldsInserted ==
    ReadersRun =>
        LET outs == Yielded
            n == Cardinality({j \in 1..Len(outs) : outs[j].some})
        IN  /\ \A j \in 1..Len(outs) : outs[j].some <=> j <= n
            /\ \A j \in 1..n : outs[j].e.key \in DOMAIN latest
            /\ n = Cardinality(DOMAIN latest)
            /\ \A j \in 1..(n - 1) :
                   compare_keys(outs[j].e.key, outs[j + 1].e.key) < 0
            /\ \A j \in 1..n :
                   LET e == outs[j].e
                       v == latest[e.key]
                   IN  /\ e.value = v.v
                       /\ e.meta = v.meta
                       /\ e.expires_at = v.expires_at

\* find_near comes to its end for every key and mode asked for
ReadersFinish ==
    \A key \in QueryKeys, less \in BOOLEAN, allow_equal \in BOOLEAN :
        find_near(key, less, allow_equal).node # -1

\* C32: the skiplist is non-blocking: with finitely many writers each
\* performing finitely many adds under fair scheduling every add terminates
\* (neither the height CAS loop nor the per-level CAS-retry loop retries
\* forever), and find_near and search terminate whatever the writers are
\* in the middle of.
C32_NonBlocking ==
    /\ \A w \in Writers :
           (writers[w].pc # "idle") ~> (writers[w].pc \in {"idle", "panicked"})
    /\ []ReadersFinish

\* C32 witness: the height loop is about to be retried: a writer stands
\* before a height compare_exchange that will fail, the other writer having
\* raised the height since the load and gone on to its tower steps.
C32_Witness ==
    \E w, u \in Writers :
        /\ writers[w].pc = "cas"
        /\ writers[u].pc = "height_cas"
        /\ writers[u].list_height # sl_height


(***************************************************************************)
(* cache/area.rs on its own: callers place nodes, keys and values in one   *)
(* Area.  Only the allocation is followed here (the bytes are followed by  *)
(* SkipSpec), so a key is given by its length.  A caller that unwinds      *)
(* leaves the Area to the others, with n as fetch_add left it.             *)
(***************************************************************************)
\* arena operations in one run
MaxAllocs == 4

\* the sizes Area::new is called with: a small buffer and the largest one
ArenaCaps == {128, U32_MAX}

\* put_node heights: the lowest and the highest tower
NodeHeights == {1, MAX_HEIGHT}

\* put_key key lengths: the empty key (the head's), a short key and two long
\* ones that take n towards 2^32
KeyLengths == {0, 9, INT_MAX - 28, INT_MAX - 1}

\* put_value values: expires_at = 0 and expires_at > 0
ArenaValues ==
    { DefaultValue,
      [meta |-> 1, v |-> <<>>, expires_at |-> U64(1), version |-> U64(1)] }

ArenaInit ==
    \E cap \in ArenaCaps, overflow_checks \in BOOLEAN :
        arena = [pc |-> "on", A |-> Area_new(cap, overflow_checks), log |-> <<>>]

\* what a call did: sz is what it asked allocate for and alloc what allocate
\* handed back; offset and size are the region the caller works with; ret
\* says that the call returned (it did not unwind)
ArenaCall(op, asked, r, alloc, size) ==
    [op |-> op, sz |-> asked, alloc |-> alloc, offset |-> r.offset, size |-> size,
     ret |-> ~r.panic, n_before |-> arena.A.n, n_after |-> r.A.n]

\* the Area and the log after a call
ArenaAfter(r, call) ==
    [arena EXCEPT !.A = [r.A EXCEPT !.buf = <<>>], !.log = Append(@, call)]

\* area.put_node(height)
PutNode(h) ==
    /\ Len(arena.log) < MaxAllocs
    /\ LET r    == put_node(arena.A, h)
           size == MAX_NODE_SIZE - (MAX_HEIGHT - h) * OFFSET_SIZE
       IN  arena' = ArenaAfter(r, ArenaCall("put_node", size + NODE_ALIGN, r,
                                            arena.A.n, size))
    /\ UNCHANGED <<cacheVars, skipVars, codecVars, sketch, filter, window, slru, keys>>

\* area.put_key(key) for a key of key_sz bytes
PutKey(key_sz) ==
    /\ Len(arena.log) < MaxAllocs
    /\ LET r == put_key_region(arena.A, key_sz)
       IN  arena' = ArenaAfter(r, ArenaCall("put_key", key_sz, r, arena.A.n, key_sz))
    /\ UNCHANGED <<cacheVars, skipVars, codecVars, sketch, filter, window, slru, keys>>

\* area.put_value(&value)
PutValue(value) ==
    /\ Len(arena.log) < MaxAllocs
    /\ LET r == put_value(arena.A, value)
       IN  arena' = ArenaAfter(r, ArenaCall("put_value", encoded_size(value), r,
                                            arena.A.n, encoded_size(value)))
    /\ UNCHANGED <<cacheVars, skipVars, codecVars, sketch, filter, window, slru, keys>>

ArenaNext ==
    \/ \E h \in NodeHeights : PutNode(h)
    \/ \E key_sz \in KeyLengths : PutKey(key_sz)
    \/ \E value \in ArenaValues : PutValue(value)

ArenaStart ==
    /\ CacheParked /\ SkipParked /\ CodecParked
    /\ Parked(sketch) /\ Parked(filter) /\ Parked(window)
    /\ Parked(slru) /\ Parked(keys)
    /\ ArenaInit

ArenaSpec == ArenaStart /\ [][ArenaNext]_vars

\* the calls that returned, in the order they were made
Returned == SelectSeq(arena.log, LAMBDA call : call.ret)

\* the regions [a.offset, a.offset + a.size) and [b.offset, b.offset + b.size)
\* share no byte
Disjoint(a, b) ==
    \/ a.size = 0
    \/ b.size = 0
    \/ ~U32Carry(a.offset, a.size) /\ U32Le(U32WrappingAdd(a.offset, a.size), b.offset)
    \/ ~U32Carry(b.offset, b.size) /\ U32Le(U32WrappingAdd(b.offset, b.size), a.offset)

\* C13: over any sequence of put_node, put_key and put_value calls on an Area
\* the high-water mark n never decreases, offset 0 is never returned, the
\* offsets returned are strictly increasing in allocation order and the
\* regions returned are pairwise disjoint.
C13_ArenaMonotone ==
    arena.pc = "on" =>
        /\ \A i \in 1..Len(arena.log) :
               U32Le(arena.log[i].n_before, arena.log[i].n_after)
        /\ \A i \in 1..Len(Returned) : Returned[i].offset # 0
        /\ \A i, j \in 1..Len(Returned) :
               i < j => /\ Returned[i].offset # Returned[j].offset
                        /\ U32Le(Returned[i].offset, Returned[j].offset)
                        /\ Disjoint(Returned[i], Returned[j])

\* C14: an allocation that does not fit hands out no memory: a call returns
\* only if allocate's offset + sz is within the capacity, and the region a
\* call returns lies entirely inside the buffer.
C14_AllocationsFit ==
    arena.pc = "on" =>
        \A i \in 1..Len(Returned) :
            /\ FitsBuffer(arena.A, Returned[i].alloc, Returned[i].sz)
            /\ FitsBuffer(arena.A, Returned[i].offset, Returned[i].size)



(***************************************************************************)
(* cache/counter.rs on its own: one CMSketch is created by counter::new    *)
(* and given increments and resets.                                        *)
(***************************************************************************)
\* CMSketch::increment calls in one run (16 take a counter past saturation)
MaxIncrements == 16

\* CMSketch::reset calls in one run
MaxResets == 1

\* the num_counters counter::new is called with
SketchSizes == {1, 2, 3, 17}

\* the hashes passed to increment and estimate
SketchHashes == {1, 30}

SketchInit ==
    \E n \in SketchSizes, seed \in SeedChoices :
        sketch = [pc |-> "on", n |-> n, c |-> counter_new(n, seed),
                  incs |-> [h \in SketchHashes |-> 0], resets |-> 0,
                  panic |-> FALSE, aged |-> FALSE, before |-> counter_new(n, seed)]

\* c.increment(hashed); a call that unwinds ends the run.  `before` is the
\* sketch as the latest reset found it, while that reset is the last call.
SketchIncrement(hashed) ==
    /\ ~sketch.panic
    /\ sketch.incs[1] + sketch.incs[30] < MaxIncrements
    /\ LET r == CMSketch_increment(sketch.c, hashed)
       IN  sketch' = [sketch EXCEPT !.c = r.c, !.incs[hashed] = @ + 1,
                                    !.panic = r.panic, !.aged = FALSE,
                                    !.before = r.c]
    /\ UNCHANGED <<cacheVars, skipVars, codecVars, arena, filter, window, slru, keys>>

\* c.reset()
SketchReset ==
    /\ ~sketch.panic
    /\ sketch.resets < MaxResets
    /\ sketch' = [sketch EXCEPT !.c = CMSketch_reset(sketch.c), !.resets = @ + 1,
                                !.aged = TRUE, !.before = sketch.c]
    /\ UNCHANGED <<cacheVars, skipVars, codecVars, arena, filter, window, slru, keys>>

SketchNext ==
    \/ \E hashed \in SketchHashes : SketchIncrement(hashed)
    \/ SketchReset

SketchStart ==
    /\ CacheParked /\ SkipParked /\ CodecParked
    /\ Parked(arena) /\ Parked(filter) /\ Parked(window)
    /\ Parked(slru) /\ Parked(keys)
    /\ SketchInit

SketchSpec == SketchStart /\ [][SketchNext]_vars

\* the 4-bit counters of a row, by index
Counters(row) == [n \in 0..(2 * Len(row.data) - 1) |-> CmRow_get(row, n).val]

\* C15: for a sketch made by new(n), n >= 1, every counter stays in [0, 15],
\* and when only hash h was incremented, m times with no reset in between,
\* estimate(h) returns min(m, 15).
C15_SketchSaturates ==
    (sketch.pc = "on" /\ sketch.resets = 0) =>
        /\ \A i \in 1..CM_DEPTH : \A j \in 1..Len(sketch.c.rows[i].data) :
               sketch.c.rows[i].data[j] \in 0..255
        /\ \A h \in SketchHashes :
               (\A o \in SketchHashes \ {h} : sketch.incs[o] = 0) =>
                   LET e == CMSketch_estimate(sketch.c, h)
                   IN  ~e.panic /\ e.val = Min(sketch.incs[h], 15)

\* C16: CMSketch::reset replaces every counter c of the four rows by
\* floor(c / 2), so that estimate(h) after the reset is half, rounded down,
\* of estimate(h) before it, for every hash h.
C16_ResetHalves ==
    (sketch.pc = "on" /\ sketch.aged) =>
        /\ \A i \in 1..CM_DEPTH :
               LET now == Counters(sketch.c.rows[i])
                   old == Counters(sketch.before.rows[i])
               IN  \A n \in DOMAIN now : now[n] = old[n] \div 2
        /\ \A h \in SketchHashes :
               CMSketch_estimate(sketch.c, h).val
                   = CMSketch_estimate(sketch.before, h).val \div 2



(***************************************************************************)
(* Claims about the tick of Cache::get and about colliding keys.           *)
(***************************************************************************)
\* C17: every get advances t by one, the cache ages and t returns to 0
\* whenever t reaches threshold, hence t never grows beyond threshold (and
\* aging recurs in every unbounded run of gets).
C17_TickWithinThreshold == t <= THRESHOLD

\* key's key_hash is in the map with another conflict hash
Collides(key) ==
    key.h \in DOMAIN data /\ items[data[key.h]].conflict # key.c

\* this step is a call of Cache::get on a colliding key
CollidingGet ==
    /\ ops'.gets = ops.gets + 1
    /\ last'.op = "get"
    /\ Collides(last'.key)

FilterSizes == {1, 7, 20}

\* the u32 hashes passed to allow, as 32-bit two's-complement integers:
\* 0, 1, 2^17, 123456789, 2^31 - 1, 2^31 and 2^32 - 1
FilterHashes == {0, 1, 131072, 123456789, 2147483647, -2147483647 - 1, -1}

\* BloomFilter::reset calls in one run
MaxFilterResets == 2

\* allowed: the hashes allow was called with since the latest reset
FilterInit ==
    \E num_entries \in FilterSizes :
        filter = [pc |-> "on", bf |-> init_filter(num_entries), allowed |-> {},
                  resets |-> 0, fresh |-> FALSE]

\* bf.allow(h); fresh tells that this call found h absent and inserted it
FilterAllow(h) ==
    /\ LET r == BloomFilter_allow(filter.bf, h)
       IN  filter' = [filter EXCEPT !.bf = r.bf, !.allowed = @ \cup {h},
                                    !.fresh = ~may_exist(filter.bf, h)]
    /\ UNCHANGED <<cacheVars, skipVars, codecVars, arena, sketch, window, slru, keys>>

\* bf.reset()
FilterReset ==
    /\ filter.resets < MaxFilterResets
    /\ filter' = [filter EXCEPT !.bf = BloomFilter_reset(filter.bf), !.allowed = {},
                                !.resets = @ + 1, !.fresh = FALSE]
    /\ UNCHANGED <<cacheVars, skipVars, codecVars, arena, sketch, window, slru, keys>>

FilterNext ==
    \/ \E h \in FilterHashes : FilterAllow(h)
    \/ FilterReset

FilterStart ==
    /\ CacheParked /\ SkipParked /\ CodecParked
    /\ Parked(arena) /\ Parked(sketch) /\ Parked(window)
    /\ Parked(slru) /\ Parked(keys)
    /\ FilterInit

FilterSpec == FilterStart /\ [][FilterNext]_vars

\* C18: once allow(h) has been called, may_exist(h) returns true, whatever
\* other hashes are passed to allow in between, until reset() is called.
C18_NoFalseNegatives ==
    filter.pc = "on" =>
        \A h \in filter.allowed : may_exist(filter.bf, h)

\* after a reset, several hashes have been allowed, the latest of them was
\* inserted by its call, and some hash never allowed is reported absent
C18_Witness ==
    /\ filter.pc = "on"
    /\ filter.resets >= 1
    /\ Cardinality(filter.allowed) >= 3
    /\ filter.fresh
    /\ \E h \in FilterHashes \ filter.allowed : ~may_exist(filter.bf, h)



(***************************************************************************)
(* memory/lru.rs on its own: one WindowLRU is created by new_lru over an   *)
(* empty map and is given add and get calls.                               *)
(***************************************************************************)
\* WindowLRU::add calls in one run
MaxWindowAdds == 4

\* WindowLRU::get calls in one run
MaxWindowGets == 2

\* the `size` new_lru is called with
WindowCaps == {0, 1, 2}

\* the keys of the items added and of the gets
WindowKeys == {1, 2, 3}

\* the two modules that define WindowLRU: memory/lru.rs and cache/lru.rs
WindowModules == {"memory", "cache"}

\* prev is the window as the latest call found it, evict what the call
\* returned, key its argument; touch[i] is the number of the latest call
\* that added item i or was a get for it
WindowInit ==
    \E cap \in WindowCaps, lru \in WindowModules :
        LET L == [data |-> EmptyMap, items |-> <<>>, list |-> <<>>]
        IN  window = [pc |-> "on", lru |-> lru, cap |-> cap, L |-> L, prev |-> L,
                      op |-> "new", key |-> 0, evict |-> 0, panic |-> FALSE,
                      gets |-> 0, touch |-> <<>>]

\* lru.add(StoreItem { stage: 0, key, conflict, value }), the same code in
\* both modules; a call that unwinds ends the run
WindowAdd(key) ==
    /\ ~window.panic
    /\ Len(window.L.items) < MaxWindowAdds
    /\ LET new_item == [stage |-> 0, key |-> key, conflict |-> key + 100,
                        value |-> Len(window.L.items) + 1]
           r == WindowLRU_add(window.L, window.cap, new_item)
       IN  window' = [window EXCEPT !.L = r.L, !.prev = window.L, !.op = "add",
                                    !.key = key, !.evict = r.evict, !.panic = r.panic,
                                    !.touch = Append(@, Len(@) + window.gets + 1)]
    /\ UNCHANGED <<cacheVars, skipVars, codecVars, arena, sketch, filter, slru, keys>>

\* lru.get(key) of memory/lru.rs, lru.get(&item) of cache/lru.rs for the
\* item that holds key
WindowGet(key) ==
    /\ ~window.panic
    /\ window.gets < MaxWindowGets
    /\ LET pos == PositionOfKey(window.L.items, window.L.list, key)
           L1  == IF window.lru = "memory" THEN WindowLRU_get(window.L, key)
                  ELSE cache_WindowLRU_get(window.L)
       IN  window' = [window EXCEPT
                          !.L = L1, !.prev = window.L, !.op = "get", !.key = key,
                          !.evict = 0, !.gets = @ + 1,
                          !.touch = IF pos = 0 THEN @
                                    ELSE [@ EXCEPT ![window.L.list[pos]] =
                                              Len(window.touch) + window.gets + 1]]
    /\ UNCHANGED <<cacheVars, skipVars, codecVars, arena, sketch, filter, slru, keys>>

WindowNext ==
    \/ \E key \in WindowKeys : WindowAdd(key)
    \/ \E key \in WindowKeys : WindowGet(key)

WindowStart ==
    /\ CacheParked /\ SkipParked /\ CodecParked
    /\ Parked(arena) /\ Parked(sketch) /\ Parked(filter)
    /\ Parked(slru) /\ Parked(keys)
    /\ WindowInit

WindowSpec == WindowStart /\ [][WindowNext]_vars

\* the items the map points to
Mapped(L) == {L.data[k] : k \in DOMAIN L.data}

\* the items in the list
Listed(L) == {L.list[i] : i \in 1..Len(L.list)}

\* C20: after any sequence of add and get the window holds at most cap
\* items; add returns an evicted item exactly when the window held cap items
\* before the call, and that item is then in neither the list nor the map.
C20_WindowCapacity ==
    window.pc = "on" =>
        /\ Len(window.L.list) <= window.cap
        /\ window.op = "add" =>
               /\ ~window.panic
               /\ (window.evict # 0) = (Len(window.prev.list) = window.cap)
               /\ window.evict # 0 =>
                      /\ window.evict \in Listed(window.prev)
                      /\ window.evict \notin Listed(window.L)
                      /\ window.evict \notin Mapped(window.L)



\* the position in the list of the item the latest get was called for
GetPos == PositionOfKey(window.prev.items, window.prev.list, window.key)

\* C21: the item add evicts is the least recently used one, the item of the
\* window whose latest add or get is the oldest; get on a present key moves
\* exactly that item to the front and keeps the order of all the others.
C21_StrictLRU ==
    window.pc = "on" =>
        /\ (window.op = "add" /\ window.evict # 0) =>
               \A i \in Listed(window.prev) :
                   window.touch[window.evict] <= window.touch[i]
        /\ (window.op = "get" /\ GetPos # 0) =>
               window.L.list = PushFront(RemoveAt(window.prev.list, GetPos),
                                         window.prev.list[GetPos])



(***************************************************************************)
(* memory/lru.rs on its own: one SegmentedLRU is created by new_slru over  *)
(* an empty map, with capacities Cache::new computes, and is given add and *)
(* get calls by a caller that holds no borrow of the items or of the map.  *)
(***************************************************************************)
\* SegmentedLRU::add calls in one run
MaxSlruAdds == 3

\* SegmentedLRU::get calls in one run
MaxSlruGets == 3

\* the sizes whose capacities new_slru is called with: (1, 0), (1, 1), (1, 2)
SlruSizes == {2, 3, 4}

\* the keys of the items added
SlruKeys == {1, 2}

\* prev is the SLRU as the latest call found it, item the call's argument
SlruInit ==
    \E size \in SlruSizes :
        LET L == [data |-> EmptyMap, items |-> <<>>, stage_one |-> <<>>,
                  stage_two |-> <<>>]
        IN  slru = [pc |-> "on", stage_one_cap |-> slru_one(size),
                    stage_two_cap |-> slru_two(size), L |-> L, prev |-> L,
                    op |-> "new", item |-> 0, panic |-> FALSE, gets |-> 0]

\* slru.add(item) for a new item, as Cache::set passes the window's victim;
\* a call that unwinds ends the run
SlruAdd(key) ==
    /\ ~slru.panic
    /\ Len(slru.L.items) < MaxSlruAdds
    /\ LET item == Len(slru.L.items) + 1
           new_item == [stage |-> 0, key |-> key, conflict |-> key + 100, value |-> item]
           L0 == [slru.L EXCEPT !.items = Append(@, new_item)]
           r  == SegmentedLRU_add(L0, slru.stage_one_cap, slru.stage_two_cap, item)
       IN  slru' = [slru EXCEPT !.L = r.L, !.prev = L0, !.op = "add", !.item = item,
                                !.panic = r.panic]
    /\ UNCHANGED <<cacheVars, skipVars, codecVars, arena, sketch, filter, window, keys>>

\* slru.get(item) for an item added before
SlruGet(item) ==
    /\ ~slru.panic
    /\ slru.gets < MaxSlruGets
    /\ item \in 1..Len(slru.L.items)
    /\ LET r == SegmentedLRU_get(slru.L, slru.stage_one_cap, slru.stage_two_cap,
                                 item, FALSE)
       IN  slru' = [slru EXCEPT !.L = r.L, !.prev = slru.L, !.op = "get",
                                !.item = item, !.panic = r.panic, !.gets = @ + 1]
    /\ UNCHANGED <<cacheVars, skipVars, codecVars, arena, sketch, filter, window, keys>>

SlruNext ==
    \/ \E key \in SlruKeys : SlruAdd(key)
    \/ \E item \in 1..MaxSlruAdds : SlruGet(item)

SlruStart ==
    /\ CacheParked /\ SkipParked /\ CodecParked
    /\ Parked(arena) /\ Parked(sketch) /\ Parked(filter) /\ Parked(window)
    /\ Parked(keys)
    /\ SlruInit

SlruSpec == SlruStart /\ [][SlruNext]_vars

(***************************************************************************)
(* Claims about the segmented LRU.                                         *)
(***************************************************************************)
\* C22: after any sequence of SegmentedLRU add and get operations, driven
\* directly or through Cache set/get, the probationary list never holds more
\* than stage_one_cap items.
C22_StageOneWithinCap == Len(stage_one) <= slru_one(sz)


\* C23: for every capacity configuration Cache::new can produce, including
\* stage_two_cap = 0, the protected list never holds more than stage_two_cap
\* items and no operation pops from an empty list.
C23_StageTwoWithinCap ==
    slru.pc = "on" =>
        /\ Len(slru.L.stage_two) <= slru.stage_two_cap
        /\ ~slru.panic

\* the items the SLRU holds
Held(L) == ListSet(L.stage_one) \cup ListSet(L.stage_two)

\* C26: after get(item) for an item held by the SLRU, the item is at the
\* front of stage_two with stage = 2 and occurs exactly once over stage_one
\* and stage_two; the items held are those held before, less at most the
\* stage_one tail that a demotion evicts.
C26_GetPromotes ==
    (slru.pc = "on" /\ slru.op = "get" /\ slru.item \in Held(slru.prev)) =>
        /\ ~slru.panic
        /\ slru.L.stage_two # <<>>
        /\ Head(slru.L.stage_two) = slru.item
        /\ slru.L.items[slru.item].stage = STAGE_TWO
        /\ Occurrences(slru.L.stage_one \o slru.L.stage_two, slru.item) = 1
        /\ \/ Held(slru.L) = Held(slru.prev)
           \/ /\ slru.prev.stage_one # <<>>
              /\ Held(slru.L) = Held(slru.prev) \ {Last(slru.prev.stage_one)}


(***************************************************************************)
(* Claims about Cache::del.                                                *)
(***************************************************************************)
\* key's key_hash is in the map with key's conflict hash
Matches(key) ==
    key.h \in DOMAIN data /\ items[data[key.h]].conflict = key.c

\* C24: del(k) on a key whose map entry has a matching conflict hash removes
\* the entry and returns Some(stored conflict); otherwise it returns None and
\* leaves the map unchanged; in every case the LRU lists, the CM-sketch, the
\* watchdog and the tick counter are unchanged.
C24_DelRemovesEntry ==
    [][last'.op = "del" =>
          /\ ~last'.panic
          /\ IF Matches(last'.key)
             THEN /\ data' = MapRemove(data, last'.key.h)
                  /\ last'.retVal = last'.key.c
             ELSE /\ data' = data
                  /\ last'.retVal = 0
          /\ UNCHANGED <<items, list, stage_one, stage_two, c, watch_dog, t>>]_vars


MatchesNext(key) ==
    key.h \in DOMAIN data' /\ items'[data'[key.h]].conflict = key.c

\* C34: a deleted key stays deleted: del(k) on a present key removes k's map
\* entry, and from then on get(k) returns None until the next set(k, _),
\* whatever sets and gets of other keys happen in between: no step but a
\* set of k brings an entry for k into the map (the stale list element is
\* not put back when it is evicted from the window or moved in the SLRU).
C34_DeletedStaysDeleted ==
    [][\A k \in ProbeKeys :
          /\ (last'.op = "del" /\ last'.key = k /\ Matches(k)) => ~MatchesNext(k)
          /\ (~Matches(k) /\ MatchesNext(k)) => (last'.op = "set" /\ last'.key = k)
      ]_vars

\* get(key) finds key's item with stage 1 or 2 and comes as far as the call
\* of slru.get with stage_two.pop_back().unwrap() not failing before the
\* borrow_mut of the item
GetReachesBorrowMut(key) ==
    /\ Matches(key)
    /\ items[data[key.h]].stage \in {STAGE_ONE, STAGE_TWO}
    /\ ~CMSketch_increment(CacheTick(CacheRec).c, key.h).panic
    /\ ~(stage_two = <<>> /\ slru_two(sz) = 0)

\* C35: get, set and del run to completion without a runtime borrow
\* failure: none requests a mutable borrow of the shared map or of an
\* item's cell while a shared borrow of it taken earlier in the operation
\* is held, in particular not get on an item with stage 1 or 2 and not del
\* on a present key.
C35_NoBorrowFailure ==
    [][\A k \in ProbeKeys :
          /\ (last'.op = "del" /\ last'.key = k /\ Matches(k)) => ~last'.panic
          /\ (last'.op = "get" /\ last'.key = k /\ GetReachesBorrowMut(k))
                 => ~last'.panic
      ]_vars


(***************************************************************************)
(* memory/utils.rs on its own: compare_keys is called with two keys.       *)
(***************************************************************************)
\* the keys compare_keys is given: user keys "", "a", "ab", "b" and "`" with
\* versions 0, 1, 2 and 2^32, and one key shorter than a version suffix
CompareKeys ==
    { key_with_ts(<<>>, U64(1)), key_with_ts(<<>>, U64(2)),
      key_with_ts(UserKeyA, U64(0)), key_with_ts(UserKeyA, U64(1)),
      key_with_ts(UserKeyA, U64(2)), key_with_ts(UserKeyA, <<0, 0, 1, 0>>),
      key_with_ts(UserKeyAB, U64(1)), key_with_ts(UserKeyB, U64(1)),
      key_with_ts(<<96>>, U64(2)), <<97, 98, 99>> }

KeysInit ==
    \E key1 \in CompareKeys, key2 \in CompareKeys :
        keys = [pc |-> "on", key1 |-> key1, key2 |-> key2, called |-> FALSE,
                panic |-> FALSE, ret |-> 0]

\* compare_keys(key1, key2)
Compare ==
    /\ keys.pc = "on"
    /\ ~keys.called
    /\ LET panic == compare_keys_panics(keys.key1, keys.key2)
       IN  keys' = [keys EXCEPT !.called = TRUE, !.panic = panic,
                                !.ret = IF panic THEN 0
                                        ELSE compare_keys(keys.key1, keys.key2)]
    /\ UNCHANGED <<cacheVars, skipVars, codecVars, arena, sketch, filter, window, slru>>

KeysNext == Compare

KeysStart ==
    /\ CacheParked /\ SkipParked /\ CodecParked
    /\ Parked(arena) /\ Parked(sketch) /\ Parked(filter) /\ Parked(window)
    /\ Parked(slru)
    /\ KeysInit

KeysSpec == KeysStart /\ [][KeysNext]_vars

\* a comes before b in the lexicographic order of byte strings
LexLess(a, b) ==
    \/ Len(a) < Len(b) /\ a = SubSeq(b, 1, Len(a))
    \/ \E i \in 1..Min(Len(a), Len(b)) :
           a[i] < b[i] /\ SubSeq(a, 1, i - 1) = SubSeq(b, 1, i - 1)

Suffix(key) == SubSeq(key, Len(key) - 7, Len(key))

\* the order the claim describes, as -1, 0 or 1
KeyOrder(key1, key2) ==
    IF LexLess(UserKey(key1), UserKey(key2)) THEN -1
    ELSE IF LexLess(UserKey(key2), UserKey(key1)) THEN 1
    ELSE IF LexLess(Suffix(key1), Suffix(key2)) THEN -1
    ELSE IF LexLess(Suffix(key2), Suffix(key1)) THEN 1
    ELSE 0

\* x < y for u64 values
U64Less(x, y) == \E i \in 1..4 : x[i] < y[i] /\ \A j \in (i + 1)..4 : x[j] = y[j]

\* C25: for two keys of at least 8 bytes compare_keys returns a result, which
\* orders them by user key and, on a tie, by the 8-byte suffix, so that of
\* two versions of one user key the larger timestamp sorts first; 0 is
\* returned iff the keys are byte-identical.
C25_CompareKeysOrder ==
    (keys.pc = "on" /\ keys.called /\ Len(keys.key1) >= 8 /\ Len(keys.key2) >= 8) =>
        /\ ~keys.panic
        /\ keys.ret = KeyOrder(keys.key1, keys.key2)
        /\ (keys.ret = 0) = (keys.key1 = keys.key2)
        /\ UserKey(keys.key1) = UserKey(keys.key2) =>
               (keys.ret = -1) = U64Less(parse_ts(keys.key2), parse_ts(keys.key1))


(***************************************************************************)
(* Claims about the geometry of the sketch.                                *)
(***************************************************************************)
\* w is the smallest power of two that is at least n
SmallestPowerOfTwo(w, n) ==
    /\ \E e \in 0..30 : w = Pow2(e)
    /\ n <= w
    /\ w < 2 * n

\* C27: counter::new(n), n >= 1, uses width = the smallest power of two >= n
\* and mask = width - 1, so every row index (hash ^ seed[i]) & mask is below
\* width and addresses a nibble inside the row's width / 2 bytes.
C27_SketchGeometry ==
    sketch.pc = "on" =>
        /\ SmallestPowerOfTwo(sketch.c.mask + 1, sketch.n)
        /\ \A i \in 1..CM_DEPTH, h \in SketchHashes :
               LET index == CmIndex(sketch.c, h, i)
               IN  /\ index <= sketch.c.mask
                   /\ index \div 2 < Len(sketch.c.rows[i].data)


=============================================================================
